---- MODULE Spec2Model ----
(***************************************************************************)
(* The retrieval engine of policy-rag.                                     *)
(*                                                                         *)
(* Index lifecycle: VectorStoreManager (rag/app/core/                      *)
(* vector_store_manager.py) loads, clears and rebuilds one named Chroma    *)
(* collection under a persist directory; VectorRetrieverLoader.            *)
(* load_retriever (rag/app/retrievers/vector_retriever.py) drives it as a  *)
(* forced rebuild over the content root read by DocumentProcessor          *)
(* (rag/app/core/document_loader.py); initialize_rag_retriever             *)
(* (rag/app/app_context.py) runs it at startup and on refresh.             *)
(*                                                                         *)
(* Retrieval: PolicyRetriever.retrieve_context and Reranker.rerank         *)
(* (rag/app/retriever.py), called by the request threads of                *)
(* rag/app/main.py over the module-level document list.                    *)
(*                                                                         *)
(* Services: the /chat endpoint (rag/app/main.py, rag/app/config.py), the  *)
(* JSON metadata store (rag/app/db/manager.py, repository.py), the         *)
(* resource endpoints (rag/app/routers/resources.py), the application      *)
(* state STATE and its lifespan (rag/app/app_context.py), and POST /query  *)
(* (rag/app/core/rag_chain_service.py, llm.py).                            *)
(*                                                                         *)
(* Specifications: Spec (one manager, one operation at a time), SpecLoad   *)
(* (load_raw_documents), SpecRetrieve (one retrieve_context call),         *)
(* SpecConcurrent (two calls interleaved), SpecRefresh (startup and        *)
(* refresh requests), SpecChat (one /chat request), SpecDb (two workers    *)
(* on the metadata store), SpecResources (two workers uploading and        *)
(* deleting), SpecApp (lifespan, one refresh and one reader of STATE),     *)
(* SpecQuery (one /query request).                                         *)
(*                                                                         *)
(* Chroma, the BM25 index, the cross-encoder and the document loaders are  *)
(* library calls: each one may raise, which the environment decides (the   *)
(* \E over outcomes in the actions).                                       *)
(***************************************************************************)
EXTENDS Integers, Sequences, FiniteSets, TLC

\* Largest number of chunks the chunking pass yields / a caller passes.
MaxChunks == 2
\* Largest number of stored vectors per chunk (vectors of repeated inserts
\* of the same chunk get fresh ids and accumulate).
MaxCopies == 2
\* Largest chunk_size / chunk_overlap a loader is constructed with.
MaxChunkSize == 2
\* Largest number of files under the content directory.
MaxFiles == 2
\* Largest number of pages/parts one file loads as.
MaxPages == 2
\* Largest initial_k / final_k a retrieve_context call is given.
MaxK == 2
\* Largest number of documents in the list passed as all_docs.
MaxDocs == 1
\* Largest rerank score (scores are 0..MaxScore).
MaxScore == 1

Chunks == 1..MaxChunks

----------------------------------------------------------------------------
(* The persist directory and the collections in it                         *)

\* No vector of any chunk.
NoVectors == [i \in Chunks |-> 0]

\* The named collection does not exist in the store.
NoColl == [exists |-> FALSE, cnt |-> NoVectors]

\* The named collection exists and holds no vector.
EmptyColl == [exists |-> TRUE, cnt |-> NoVectors]

\* The collection holding exactly one vector for each of the chunks 1..n.
Exactly(n) == [exists |-> TRUE, cnt |-> [i \in Chunks |-> IF i <= n THEN 1 ELSE 0]]

RECURSIVE SumTo(_, _)
SumTo(f, k) == IF k = 0 THEN 0 ELSE f[k] + SumTo(f, k - 1)

\* len(collection["ids"]): the number of vectors a collection holds.
Count(c) == SumTo(c.cnt, MaxChunks)

\* The directory after shutil.rmtree: every collection under it is gone.
RemovedDir == [path |-> FALSE, coll |-> NoColl, other |-> FALSE]

\* Chroma(collection_name, embedding_function, persist_directory): opens the
\* persistent client (creating the directory) and gets or creates the
\* named collection.
ChromaCtor(d) ==
    [d EXCEPT !.path = TRUE,
              !.coll = IF d.coll.exists THEN d.coll ELSE EmptyColl]

\* One batch of Chroma.from_documents: chunk i is stored under a fresh id.
AddChunk(d, i) == [d EXCEPT !.coll.cnt[i] = @ + 1]

DiskStates ==
    { d \in [path : BOOLEAN,
             coll : [exists : BOOLEAN, cnt : [Chunks -> 0..1]],
             other : BOOLEAN] :
        /\ (~d.path => (~d.coll.exists /\ ~d.other))
        /\ (~d.coll.exists => d.coll.cnt = NoVectors)
        /\ \E n \in 0..MaxChunks : d.coll.cnt = Exactly(n).cnt }

ContentRoots ==
    { c \in [exists : BOOLEAN, raw : 0..1, chunks : 0..MaxChunks] :
        /\ (~c.exists => c.raw = 0)
        /\ (c.raw = 0 => c.chunks = 0) }

\* The chunk_size / chunk_overlap pairs a VectorRetrieverLoader is built
\* with; __init__ stores whatever it is given.
ChunkConfigs == [size : 1..MaxChunkSize, overlap : 0..MaxChunkSize]

\* RecursiveCharacterTextSplitter(chunk_size, chunk_overlap, ...) raises
\* ValueError when the overlap is larger than the chunk size, and only then.
SplitterRejects(cfg) == cfg.overlap > cfg.size

----------------------------------------------------------------------------
VARIABLES
    disk,               \* the persist directory: path exists, named collection, another collection
    content_root,       \* the content directory: exists, raw documents loaded, chunks they split into
    chunk_config,       \* VectorRetrieverLoader.chunk_size / chunk_overlap
    vector_store,       \* VectorStoreManager.vector_store: "None" or "Chroma"
    op,                 \* the running (or last) operation: "load_retriever" or "ensure"
    pc,                 \* position in the running operation
    epc,                \* position inside load_or_create_vector_store
    force_rebuild,      \* the local force_rebuild of the running call
    documents_to_index, \* number of chunks passed to the running call
    inserted,           \* chunks of the running bulk insert already stored
    result,             \* how the last operation ended: "returned" or the exception raised
    ops,                \* store-level operations of the running call, in order
    pre,                \* disk at entry of the running call
    forced_given,       \* force_rebuild as the caller gave it
    loadOutcome,        \* outcome of the load attempt of the running call
    partialBy,          \* why the persisted collection is half-written, if it is
    createFailed,       \* a library call of the create step raised in this call
    envFailed,          \* a library call raised during the running operation
    lrCounts            \* collection counts after the latest consecutive successful load_retriever runs

indexVars == <<disk, content_root, chunk_config, vector_store, op, pc, epc, force_rebuild,
               documents_to_index, inserted, result, ops, pre, forced_given,
               loadOutcome, partialBy, createFailed, envFailed, lrCounts>>

\* DocumentProcessor.load_raw_documents (rag/app/core/document_loader.py).
VARIABLES
    content_path,       \* the content directory as the walk sees it: exists, files in traversal order
    lpc,                \* position in load_raw_documents: "idle", "walk", "done"
    file_idx,           \* index of the file the walk visits next
    all_docs,           \* the local list all_docs: <<file index, page>> pairs
    load_result         \* how load_raw_documents ended, and the list it returned

loaderVars == <<content_path, lpc, file_idx, all_docs, load_result>>

\* PolicyRetriever.retrieve_context (rag/app/retriever.py) and its callers.
VARIABLES
    docs,               \* the module-level list passed as all_docs: page_content and metadata of each Document
    shares_metadata,    \* whether Document(page_content=t, metadata=m) keeps the dict m (pydantic v1 builds) or copies it (pydantic v2 builds)
    call,               \* per request thread: the frame of its retrieve_context call
    docs0               \* docs as loaded at start-up

retrievalVars == <<docs, shares_metadata, call, docs0>>

\* Startup and refresh requests of the serving process (rag/app/app_context.py).
VARIABLES
    rpc,                \* per request: position in its initialize_rag_retriever / load_retriever run
    rvs,                \* per request: vector_store of the VectorStoreManager its loader built
    rinserted,          \* per request: chunks of its bulk insert already stored
    rag_retriever       \* STATE['RAG_RETRIEVER']: the request whose retriever is installed

refreshVars == <<rpc, rvs, rinserted, rag_retriever>>

\* The /chat endpoint (rag/app/main.py) and its configuration (rag/app/config.py).
VARIABLES
    env,                \* the environment at import: the two TOP_K_* variables, Unset when absent
    chat                \* the /chat request: position in chat() / generate_answer, and its answer

chatVars == <<env, chat>>

\* The metadata store (rag/app/db/manager.py, rag/app/db/repository.py) and
\* the resource endpoints over it (rag/app/routers/resources.py).
VARIABLES
    rename_replaces,    \* whether os.rename replaces an existing destination (POSIX) or raises FileExistsError (Windows)
    db_file,            \* the DB file: how far it is written, and the collection it holds
    tmp_file,           \* per request: the temporary file of its save_db
    req,                \* per request: the repository call it runs, its position, its local db, its outcome
    stored,             \* ids of the resources whose file exists under STORAGE_DIR
    used,               \* ids uuid4() handed out so far
    alive               \* ids whose create was committed and whose delete was not (history)

dbVars == <<rename_replaces, db_file, tmp_file, req, stored, used, alive>>

\* Requests served while the index is rebuilt (rag/app/app_context.py).
VARIABLES
    STATE_keys,         \* the keys of the module-level dict STATE
    reader              \* a request that asks get_rag_retriever for the retriever and queries it

appVars == <<STATE_keys, reader>>

\* POST /query (rag/app/core/rag_chain_service.py).
VARIABLES
    qry                 \* the process_rag_query call: position, retrieved documents, response, log

queryVars == <<qry>>

\* Variables of the services around the retrieval engine.
serviceVars == <<chatVars, dbVars, appVars, queryVars>>

\* Variables of the other components, which the index operations leave alone.
nonIndexVars == <<loaderVars, retrievalVars, refreshVars, serviceVars>>

vars == <<indexVars, nonIndexVars>>

----------------------------------------------------------------------------
(* VectorStoreManager                                                      *)

ClearOutcomes == [get : {"ok", "error"}, del : {"ok", "error"}, rm : {"ok", "oserror"}]

AllOk == [get |-> "ok", del |-> "ok", rm |-> "ok"]

\* _cleanup_directory with the OSError of the rmtree swallowed.
CleanupDirectory_Swallow(vs, d, rm) ==
    IF d.path
    THEN IF rm = "ok"
         THEN [vs |-> "None", disk |-> RemovedDir, raised |-> FALSE, log |-> <<"rmtree_ok">>]
         ELSE [vs |-> "None", disk |-> d, raised |-> FALSE, log |-> <<"rmtree_fail">>]
    ELSE [vs |-> vs, disk |-> d, raised |-> FALSE, log |-> <<>>]

\* _cleanup_directory: rmtree of the whole persist directory; an OSError
\* becomes VectorStoreError. The reference is dropped before the rmtree.
CleanupDirectory(vs, d, rm) ==
    IF d.path
    THEN IF rm = "ok"
         THEN [vs |-> "None", disk |-> RemovedDir, raised |-> FALSE, log |-> <<"rmtree_ok">>]
         ELSE [vs |-> "None", disk |-> d, raised |-> TRUE, log |-> <<"rmtree_fail">>]
    ELSE [vs |-> vs, disk |-> d, raised |-> FALSE, log |-> <<>>]

\* _clear_existing_collection going for the directory without trying the
\* store-level delete.
ClearExistingCollection_RmtreeFirst(vs, d, out) ==
    IF vs # "None" \/ d.path
    THEN CleanupDirectory(vs, d, out.rm)
    ELSE [vs |-> vs, disk |-> d, raised |-> FALSE, log |-> <<>>]

\* _clear_existing_collection: delete-by-name through the store's client;
\* "not found" is tolerated; any other error falls back to the rmtree; with
\* no store object and an existing path the rmtree runs directly.
ClearExistingCollection(vs, d, out) ==
    IF vs # "None"
    THEN IF ~d.coll.exists
         THEN [vs |-> "None", disk |-> d, raised |-> FALSE, log |-> <<"not_found">>]
         ELSE IF out.get = "ok" /\ out.del = "ok"
              THEN [vs |-> "None", disk |-> [d EXCEPT !.coll = NoColl],
                    raised |-> FALSE, log |-> <<"delete_ok">>]
              ELSE LET r == CleanupDirectory(vs, d, out.rm)
                   IN  [r EXCEPT !.log = <<"delete_fail">> \o r.log]
    ELSE IF d.path
         THEN CleanupDirectory(vs, d, out.rm)
         ELSE [vs |-> vs, disk |-> d, raised |-> FALSE, log |-> <<>>]

\* The entry test with the clear of a forced call left out.
ClearsOnEntry_Never(force) == FALSE

\* `if force_rebuild:` at entry: only a call given force_rebuild clears.
ClearsOnEntry(force) == force

\* `if not force_rebuild and os.path.exists(...)`: the load attempt is
\* skipped by a forced call.
AfterClearPc(force, d) == IF ~force /\ d.path THEN "load" ELSE "create"

\* A call that starts past the clear, whatever it was given.
EntryPc_PastClear(force, d) == AfterClearPc(force, d)

\* Where a call starts: the clear of a forced call, else the load attempt
\* when the path exists, else the create step.
EntryPc(force, d) ==
    IF ClearsOnEntry(force) THEN "instantiate" ELSE AfterClearPc(force, d)

\* The load attempt without the early return of the populated collection.
AfterLoadPc_FallsThrough(c) == "create"

\* `if collection["ids"]:` a loaded collection with ids is returned as is;
\* an empty one falls through to the create step.
AfterLoadPc(c) == IF Count(c) > 0 THEN "returned" ELSE "create"

\* Lines 104-113: a forced call with no store object and an existing path
\* instantiates Chroma so that the clear can work; a failure is logged and
\* the call continues with no store object.
InstantiateForClear(vs, d, ok) ==
    IF vs = "None" /\ d.path
    THEN IF ok
         THEN [vs |-> "Chroma", disk |-> ChromaCtor(d), log |-> <<>>]
         ELSE [vs |-> vs, disk |-> d, log |-> <<"ctor_fail">>]
    ELSE [vs |-> vs, disk |-> d, log |-> <<>>]

\* An entry e occurs in a log.
Has(log, e) == \E i \in 1..Len(log) : log[i] = e

Failed(log) == \E i \in 1..Len(log) : log[i] \in {"ctor_fail", "delete_fail", "rmtree_fail"}

----------------------------------------------------------------------------
(* Calls and returns                                                       *)

LrPcs == {"lr_first", "lr_empty", "lr_index"}

Running == pc \notin {"idle", "done"}

\* Counts of the latest two consecutive successful load_retriever runs.
Push(s, c) == IF Len(s) = 2 THEN <<s[2], c>> ELSE Append(s, c)

\* Entry of load_or_create_vector_store(documents_to_index = chunks 1..n,
\* force_rebuild = force).
BeginCall(force, n) ==
    /\ force_rebuild' = force
    /\ forced_given' = force
    /\ documents_to_index' = n
    /\ epc' = EntryPc(force, disk)
    /\ ops' = <<>>
    /\ pre' = disk
    /\ loadOutcome' = "none"
    /\ inserted' = 0
    /\ createFailed' = FALSE

\* An exception leaves the running operation: no caller in the model
\* catches it.
Raise(e) ==
    /\ pc' = "done"
    /\ epc' = "raised"
    /\ result' = e
    /\ lrCounts' = <<>>

\* load_or_create_vector_store returns self.vector_store: the first call
\* of load_retriever discards it and goes on, every other call is the
\* operation's last step.
Return ==
    /\ epc' = "returned"
    /\ IF pc = "lr_first"
       THEN /\ pc' = pc
            /\ result' = result
            /\ lrCounts' = lrCounts
       ELSE /\ pc' = "done"
            /\ result' = "returned"
            /\ lrCounts' = IF pc \in LrPcs THEN Push(lrCounts, Count(disk'.coll)) ELSE <<>>

----------------------------------------------------------------------------
\* No operation has run on the manager.
IndexIdle ==
    /\ vector_store = "None"
    /\ op = "none"
    /\ pc = "idle"
    /\ epc = "none"
    /\ force_rebuild = FALSE
    /\ documents_to_index = 0
    /\ inserted = 0
    /\ result = "none"
    /\ ops = <<>>
    /\ pre = disk
    /\ forced_given = FALSE
    /\ loadOutcome = "none"
    /\ partialBy = "none"
    /\ createFailed = FALSE
    /\ envFailed = FALSE
    /\ lrCounts = <<>>

\* No load pass has run.
LoaderIdle ==
    /\ content_path = [exists |-> FALSE, files |-> <<>>]
    /\ lpc = "idle"
    /\ file_idx = 1
    /\ all_docs = <<>>
    /\ load_result = [kind |-> "none", docs |-> <<>>]

\* Request threads of the serving process.
Procs == {1, 2}

\* Absent metadata keys: metadata.get('source_name') is None, and there is no
\* 'rerank_score' before a rerank wrote one.
NoSource == "None"
NoScore == -1

\* The frame of a thread that runs no retrieve_context call.
IdleFrame ==
    [pc |-> "idle", initial_k |-> 0, final_k |-> 0, vector_docs |-> <<>>,
     keyword_docs |-> <<>>, unique_docs |-> <<>>, scores |-> <<>>,
     stages |-> <<>>, result |-> [kind |-> "none", context |-> <<>>, chunks |-> <<>>]]

\* No document list, no request.
RetrieverIdle ==
    /\ docs = <<>>
    /\ docs0 = <<>>
    /\ shares_metadata = FALSE
    /\ call = [p \in Procs |-> IdleFrame]

\* The lifespan startup and two refresh requests.
RProcs == {"startup", "refresh1", "refresh2"}

\* Nothing started.
RefreshIdle ==
    /\ rpc = [p \in RProcs |-> "idle"]
    /\ rvs = [p \in RProcs |-> "None"]
    /\ rinserted = [p \in RProcs |-> 0]
    /\ rag_retriever = "none"

\* os.getenv(name, default) finds no variable of that name.
Unset == -1

\* No environment variable set, no /chat request.
ChatIdle ==
    /\ env = [TOP_K_CHUNKS_ON_RETRIEVER |-> Unset, TOP_K_CHUNKS_ON_RERANKER |-> Unset]
    /\ chat = [pc |-> "idle", status |-> 0]

\* Requests against the metadata store.
DbProcs == {1, 2}

\* Resource ids.
Ids == {"a", "b"}
NoId == "none"

\* A path with no file; a file opened for writing; a file whose content was
\* written to the end / only in part.
Absent == [written |-> "absent", data |-> <<>>]
EmptyFile == [written |-> "empty", data |-> <<>>]
Complete(d) == [written |-> "complete", data |-> d]
Partial(d) == [written |-> "partial", data |-> d]

\* A request that runs nothing.
IdleReq ==
    [pc |-> "idle", op |-> "none", id |-> NoId, db |-> <<>>, result |-> "none",
     handler |-> "none", status |-> 0]

\* JsonFileManager.__init__ lines 35-40 wrote '{}'; no request, no upload.
DbIdle ==
    /\ rename_replaces = TRUE
    /\ db_file = Complete(<<>>)
    /\ tmp_file = [p \in DbProcs |-> Absent]
    /\ req = [p \in DbProcs |-> IdleReq]
    /\ stored = {}
    /\ used = {}
    /\ alive = {}

\* A request before it asks for the retriever.
IdleReader ==
    [pc |-> "idle", retriever |-> "none", at_get |-> NoColl, observed |-> NoColl,
     result |-> "none"]

\* STATE = {} (app_context.py line 33) and no request holds a retriever.
AppIdle ==
    /\ STATE_keys = {}
    /\ reader = IdleReader

\* str(None) of an absent error, and no answer.
NoDetail == "None"

\* A /query request before it arrives: nothing retrieved, logged, caught or
\* answered.
IdleQuery ==
    [pc |-> "idle", k |-> 0, context_docs |-> <<>>, logs |-> <<>>, caught |-> NoDetail,
     response |-> [answer |-> NoDetail, context |-> <<>>, error |-> NoDetail]]

\* No /query request.
QueryIdle == qry = IdleQuery

\* Nothing happened in the services around the engine.
ServiceIdle ==
    /\ ChatIdle
    /\ DbIdle
    /\ AppIdle
    /\ QueryIdle

Init ==
    /\ disk \in DiskStates
    /\ content_root \in ContentRoots
    /\ chunk_config \in ChunkConfigs
    /\ IndexIdle
    /\ LoaderIdle
    /\ RetrieverIdle
    /\ RefreshIdle
    /\ ServiceIdle

\* VectorRetrieverLoader.__init__ builds a new VectorStoreManager
\* (vector_store = None); load_retriever starts with the forced call that
\* passes no documents.
StartLoadRetriever ==
    /\ ~Running
    /\ op' = "load_retriever"
    /\ pc' = "lr_first"
    /\ vector_store' = "None"
    /\ BeginCall(TRUE, 0)
    /\ result' = "none"
    /\ envFailed' = FALSE
    /\ UNCHANGED nonIndexVars
    /\ UNCHANGED <<disk, content_root, chunk_config, partialBy, lrCounts>>

\* A direct load_or_create_vector_store(documents_to_index, force_rebuild)
\* on the manager as it stands (ParentDocumentRetrieverLoader passes
\* force_rebuild = cleanup_existing and no documents).
StartEnsure ==
    /\ ~Running
    /\ \E force \in BOOLEAN, n \in 0..MaxChunks : BeginCall(force, n)
    /\ op' = "ensure"
    /\ pc' = "ensure"
    /\ result' = "none"
    /\ envFailed' = FALSE
    /\ lrCounts' = <<>>
    /\ UNCHANGED nonIndexVars
    /\ UNCHANGED <<disk, content_root, chunk_config, vector_store, partialBy>>

\* Lines 102-113.
Instantiate ==
    /\ Running /\ epc = "instantiate"
    /\ \E ok \in BOOLEAN :
         LET r == InstantiateForClear(vector_store, disk, ok) IN
         /\ vector_store' = r.vs
         /\ disk' = r.disk
         /\ ops' = ops \o r.log
         /\ envFailed' = (envFailed \/ Failed(r.log))
    /\ epc' = "clear"
    /\ UNCHANGED nonIndexVars
    /\ UNCHANGED <<content_root, chunk_config, op, pc, force_rebuild, documents_to_index, inserted,
                   result, pre, forced_given, loadOutcome, partialBy, createFailed,
                   lrCounts>>

\* Line 116: self._clear_existing_collection(); VectorStoreError propagates.
Clear ==
    /\ Running /\ epc = "clear"
    /\ \E out \in ClearOutcomes :
         LET r == ClearExistingCollection(vector_store, disk, out) IN
         /\ vector_store' = r.vs
         /\ disk' = r.disk
         /\ ops' = ops \o r.log
         /\ envFailed' = (envFailed \/ Failed(r.log))
         /\ partialBy' = IF r.disk.coll.exists THEN partialBy ELSE "none"
         /\ IF r.raised
            THEN Raise("VectorStoreError")
            ELSE /\ epc' = AfterClearPc(force_rebuild, r.disk)
                 /\ UNCHANGED <<pc, result, lrCounts>>
    /\ UNCHANGED nonIndexVars
    /\ UNCHANGED <<content_root, chunk_config, op, force_rebuild, documents_to_index, inserted,
                   pre, forced_given, loadOutcome, createFailed>>

\* Lines 119-141: the load attempt. A populated collection is returned; an
\* empty one, or an exception of Chroma(...) / get(), sets force_rebuild and
\* drops the reference. Chroma(...) has got or created the collection by
\* the time get() runs.
LoadExisting ==
    /\ Running /\ epc = "load"
    /\ \E out \in {"ok", "ctor_error", "get_error"} :
         IF out = "ok"
         THEN LET d == ChromaCtor(disk) IN
              /\ disk' = d
              /\ envFailed' = envFailed
              /\ IF Count(d.coll) > 0
                 THEN /\ vector_store' = "Chroma"
                      /\ loadOutcome' = "loaded"
                      /\ force_rebuild' = force_rebuild
                 ELSE /\ vector_store' = "None"
                      /\ loadOutcome' = "empty"
                      /\ force_rebuild' = TRUE
              /\ IF AfterLoadPc(d.coll) = "returned"
                 THEN Return
                 ELSE /\ epc' = "create"
                      /\ UNCHANGED <<pc, result, lrCounts>>
         ELSE /\ disk' = IF out = "get_error" THEN ChromaCtor(disk) ELSE disk
              /\ envFailed' = TRUE
              /\ vector_store' = "None"
              /\ loadOutcome' = "raised"
              /\ force_rebuild' = TRUE
              /\ epc' = "create"
              /\ UNCHANGED <<pc, result, lrCounts>>
    /\ UNCHANGED nonIndexVars
    /\ UNCHANGED <<content_root, chunk_config, op, documents_to_index, inserted, ops, pre,
                   forced_given, partialBy, createFailed>>

\* Lines 144-164: with documents, Chroma.from_documents gets or creates the
\* collection and then stores the chunks batch by batch; without documents
\* an empty Chroma is instantiated unless the manager still holds one.
CreateBegin ==
    /\ Running /\ epc = "create"
    /\ IF documents_to_index > 0 \/ vector_store = "None"
       THEN \E ok \in BOOLEAN :
              /\ ops' = Append(ops, "create")
              /\ IF ok
                 THEN /\ disk' = ChromaCtor(disk)
                      /\ UNCHANGED <<createFailed, envFailed>>
                      /\ IF documents_to_index > 0
                         THEN /\ epc' = "insert"
                              /\ UNCHANGED <<pc, result, lrCounts, vector_store>>
                         ELSE /\ vector_store' = "Chroma"
                              /\ Return
                 ELSE /\ disk' = disk
                      /\ createFailed' = TRUE
                      /\ envFailed' = TRUE
                      /\ vector_store' = vector_store
                      /\ Raise("ChromaError")
       ELSE /\ UNCHANGED <<disk, ops, createFailed, envFailed, vector_store>>
            /\ Return
    /\ inserted' = 0
    /\ UNCHANGED nonIndexVars
    /\ UNCHANGED <<content_root, chunk_config, op, force_rebuild, documents_to_index, pre,
                   forced_given, loadOutcome, partialBy>>

\* One batch of the bulk insert of Chroma.from_documents (line 149); the
\* assignment to self.vector_store happens when the last batch is stored.
InsertBatch ==
    /\ Running /\ epc = "insert"
    /\ inserted < documents_to_index
    /\ disk.coll.cnt[inserted + 1] < MaxCopies
    /\ \E ok \in BOOLEAN :
         IF ok
         THEN /\ disk' = AddChunk(disk, inserted + 1)
              /\ inserted' = inserted + 1
              /\ UNCHANGED <<createFailed, envFailed, partialBy>>
              /\ IF inserted + 1 = documents_to_index
                 THEN /\ vector_store' = "Chroma"
                      /\ Return
                 ELSE /\ UNCHANGED <<vector_store, pc, epc, result, lrCounts>>
         ELSE /\ UNCHANGED <<disk, inserted, vector_store>>
              /\ createFailed' = TRUE
              /\ envFailed' = TRUE
              /\ partialBy' = IF inserted > 0 THEN "failure" ELSE partialBy
              /\ Raise("ChromaError")
    /\ UNCHANGED nonIndexVars
    /\ UNCHANGED <<content_root, chunk_config, op, force_rebuild, documents_to_index, ops, pre,
                   forced_given, loadOutcome>>

\* load_retriever lines 56-63: load_raw_documents raises FileNotFoundError
\* when the content path is missing; with no raw document the second forced
\* call again passes no documents.
LoadRawDocuments ==
    /\ pc = "lr_first" /\ epc = "returned"
    /\ IF ~content_root.exists
       THEN /\ Raise("FileNotFoundError")
            /\ UNCHANGED <<force_rebuild, forced_given, documents_to_index, ops,
                           pre, loadOutcome, inserted, createFailed>>
       ELSE IF content_root.raw = 0
       THEN /\ pc' = "lr_empty"
            /\ BeginCall(TRUE, 0)
            /\ UNCHANGED <<result, lrCounts>>
       ELSE /\ pc' = "lr_chunk"
            /\ epc' = "none"
            /\ UNCHANGED <<force_rebuild, forced_given, documents_to_index, ops,
                           pre, loadOutcome, inserted, createFailed, result, lrCounts>>
    /\ UNCHANGED nonIndexVars
    /\ UNCHANGED <<disk, content_root, chunk_config, vector_store, op, partialBy, envFailed>>

\* load_retriever lines 65-79: chunk_documents (which builds the splitter,
\* ValueError on an overlap above the size), the log line that reads
\* chunks[0] (IndexError on an empty list), then the forced call with the
\* chunks.
ChunkDocuments ==
    /\ pc = "lr_chunk"
    /\ IF SplitterRejects(chunk_config)
       THEN /\ Raise("ValueError")
            /\ UNCHANGED <<force_rebuild, forced_given, documents_to_index, ops,
                           pre, loadOutcome, inserted, createFailed>>
       ELSE IF content_root.chunks = 0
       THEN /\ Raise("IndexError")
            /\ UNCHANGED <<force_rebuild, forced_given, documents_to_index, ops,
                           pre, loadOutcome, inserted, createFailed>>
       ELSE /\ pc' = "lr_index"
            /\ BeginCall(TRUE, content_root.chunks)
            /\ UNCHANGED <<result, lrCounts>>
    /\ UNCHANGED nonIndexVars
    /\ UNCHANGED <<disk, content_root, chunk_config, vector_store, op, partialBy, envFailed>>

\* The process is stopped while an operation runs: memory is lost, the
\* persist directory stays as it is.
Interrupt ==
    /\ Running
    /\ pc' = "idle"
    /\ epc' = "none"
    /\ vector_store' = "None"
    /\ result' = "interrupted"
    /\ partialBy' = IF epc = "insert" /\ inserted > 0 THEN "interrupt" ELSE partialBy
    /\ lrCounts' = <<>>
    /\ UNCHANGED nonIndexVars
    /\ UNCHANGED <<disk, content_root, chunk_config, op, force_rebuild, documents_to_index, inserted,
                   ops, pre, forced_given, loadOutcome, createFailed, envFailed>>

Next ==
    \/ StartLoadRetriever
    \/ StartEnsure
    \/ Instantiate
    \/ Clear
    \/ LoadExisting
    \/ CreateBegin
    \/ InsertBatch
    \/ LoadRawDocuments
    \/ ChunkDocuments
    \/ Interrupt

Spec == Init /\ [][Next]_vars

TypeOK ==
    /\ disk.path \in BOOLEAN /\ disk.other \in BOOLEAN
    /\ disk.coll \in [exists : BOOLEAN, cnt : [Chunks -> 0..MaxCopies]]
    /\ (~disk.path => (~disk.coll.exists /\ ~disk.other))
    /\ (~disk.coll.exists => disk.coll.cnt = NoVectors)
    /\ vector_store \in {"None", "Chroma"}
    /\ op \in {"none", "load_retriever", "ensure"}
    /\ (vector_store = "Chroma" => disk.coll.exists)
    /\ inserted \in 0..MaxChunks

----------------------------------------------------------------------------
(* DocumentProcessor.load_raw_documents                                    *)

\* File extensions as they are spelled on disk.
Exts == {".pdf", ".PDF", ".txt", ".docx", ".doc", ".md"}

\* str.lower() on an extension.
Lower(ext) == IF ext = ".PDF" THEN ".pdf" ELSE ext

\* What a directory entry that os.walk lists under files is: a regular
\* readable file, a regular file whose content its loader cannot read, or an
\* entry that is no regular file (a dangling symlink, a FIFO).
FileKinds == {"regular", "corrupt", "not_a_file"}

Files == [ext : Exts, kind : FileKinds, pages : 1..MaxPages]

\* The sequences over S of length at most n.
SeqsUpTo(S, n) == UNION { [1..m -> S] : m \in 0..n }

\* A missing directory has no files.
ContentPaths ==
    { [exists |-> FALSE, files |-> <<>>] }
        \cup { [exists |-> TRUE, files |-> fs] : fs \in SeqsUpTo(Files, MaxFiles) }

\* _get_loader, lines 20-29: the loader class chosen by the lower-cased
\* extension, None for any other extension.
GetLoaderClass(ext) ==
    LET e == Lower(ext) IN
    IF e = ".pdf" THEN "PyMuPDFLoader"
    ELSE IF e = ".txt" THEN "TextLoader"
    ELSE IF e \in {".docx", ".doc"} THEN "UnstructuredWordDocumentLoader"
    ELSE "None"

\* Constructing the loader (lines 22-26, called from line 43 outside the
\* try): PyMuPDFLoader's BasePDFLoader.__init__ raises ValueError for a path
\* that is neither a regular file nor a URL; TextLoader and
\* UnstructuredWordDocumentLoader only store the path.
CtorRaises(f) == GetLoaderClass(f.ext) = "PyMuPDFLoader" /\ f.kind = "not_a_file"

\* loader.load() (line 47) raises on anything but a readable regular file.
LoadRaises(f) == f.kind # "regular"

\* The documents loader.load() returns for file i, in page order.
DocsOf(i, f) == [p \in 1..f.pages |-> <<i, p>>]

\* A load pass that walks whatever path it is given.
PathMissing_Never(cp) == FALSE

\* Line 36: not os.path.exists(self.content_path).
PathMissing(cp) == ~cp.exists

\* Lines 33-38: all_docs = [], then FileNotFoundError when the content path
\* does not exist.
LoadStart ==
    /\ lpc = "idle"
    /\ all_docs' = <<>>
    /\ file_idx' = 1
    /\ IF PathMissing(content_path)
       THEN /\ lpc' = "done"
            /\ load_result' = [kind |-> "FileNotFoundError", docs |-> <<>>]
       ELSE /\ lpc' = "walk"
            /\ load_result' = [kind |-> "none", docs |-> <<>>]
    /\ UNCHANGED <<content_path, indexVars, retrievalVars, refreshVars, serviceVars>>

\* Lines 41-54, one file of the walk: no loader for an unsupported
\* extension; an exception of the loader's constructor leaves
\* load_raw_documents; an exception of load() is logged and the file skipped;
\* otherwise the file's documents are appended.
LoadFile ==
    /\ lpc = "walk"
    /\ file_idx <= Len(content_path.files)
    /\ LET f == content_path.files[file_idx] IN
       IF GetLoaderClass(f.ext) = "None"
       THEN /\ file_idx' = file_idx + 1
            /\ UNCHANGED <<lpc, all_docs, load_result>>
       ELSE IF CtorRaises(f)
       THEN /\ lpc' = "done"
            /\ load_result' = [kind |-> "ValueError", docs |-> <<>>]
            /\ UNCHANGED <<file_idx, all_docs>>
       ELSE IF LoadRaises(f)
       THEN /\ file_idx' = file_idx + 1
            /\ UNCHANGED <<lpc, all_docs, load_result>>
       ELSE /\ all_docs' = all_docs \o DocsOf(file_idx, f)
            /\ file_idx' = file_idx + 1
            /\ UNCHANGED <<lpc, load_result>>
    /\ UNCHANGED <<content_path, indexVars, retrievalVars, refreshVars, serviceVars>>

\* Lines 56-57: return all_docs.
LoadReturn ==
    /\ lpc = "walk"
    /\ file_idx > Len(content_path.files)
    /\ lpc' = "done"
    /\ load_result' = [kind |-> "returned", docs |-> all_docs]
    /\ UNCHANGED <<content_path, file_idx, all_docs, indexVars, retrievalVars, refreshVars, serviceVars>>

\* A fresh load pass over the same directory.
LoadAgain ==
    /\ lpc = "done"
    /\ lpc' = "idle"
    /\ UNCHANGED <<content_path, file_idx, all_docs, load_result, indexVars, retrievalVars, refreshVars, serviceVars>>

InitLoad ==
    /\ disk = RemovedDir
    /\ content_root = [exists |-> FALSE, raw |-> 0, chunks |-> 0]
    /\ chunk_config = [size |-> 1, overlap |-> 0]
    /\ IndexIdle
    /\ content_path \in ContentPaths
    /\ lpc = "idle"
    /\ file_idx = 1
    /\ all_docs = <<>>
    /\ load_result = [kind |-> "none", docs |-> <<>>]
    /\ RetrieverIdle
    /\ RefreshIdle
    /\ ServiceIdle

NextLoad ==
    \/ LoadStart
    \/ LoadFile
    \/ LoadReturn
    \/ LoadAgain

SpecLoad == InitLoad /\ [][NextLoad]_vars

----------------------------------------------------------------------------
(* Reranker.rerank and PolicyRetriever.retrieve_context                    *)

Contents == {"c1", "c2"}
SourceValues == {"s1", NoSource}
Scores == 0..MaxScore

\* A Document as the retrieval code sees it: its text and its metadata dict.
\* ref = 0: the dict is this object's own (source_name, rerank_score are its
\* entries); ref = i > 0: the dict is the one of docs[i].
DocKinds == [page_content : Contents, source_name : SourceValues]

OwnDoc(c, src) == [page_content |-> c, source_name |-> src, rerank_score |-> NoScore, ref |-> 0]

\* The lists docs can be at start-up.
DocLists == SeqsUpTo({ OwnDoc(d.page_content, d.source_name) : d \in DocKinds }, MaxDocs)

\* doc.metadata, through the reference when the dict is shared.
MetaOf(ds, d) ==
    IF d.ref = 0
    THEN [source_name |-> d.source_name, rerank_score |-> d.rerank_score]
    ELSE [source_name |-> ds[d.ref].source_name, rerank_score |-> ds[d.ref].rerank_score]

\* The k-th smallest element of a finite set of integers.
KthOf(S, k) == CHOOSE i \in S : Cardinality({ j \in S : j < i }) = k - 1

\* A union that keeps every candidate.
Dedup_KeepAll(combined) == combined

\* Line 107: list({doc.page_content: doc for doc in combined_docs}.values()).
\* A dict keeps a key at the position of its first insertion and the value
\* of its last one.
Dedup(combined) ==
    LET n == Len(combined)
        firsts == { i \in 1..n : \A j \in 1..(i - 1) :
                        combined[j].page_content # combined[i].page_content }
        lastOf(i) == CHOOSE j \in i..n :
                        /\ combined[j].page_content = combined[i].page_content
                        /\ \A l \in (j + 1)..n :
                              combined[l].page_content # combined[i].page_content
    IN [k \in 1..Cardinality(firsts) |-> combined[lastOf(KthOf(firsts, k))]]

\* An ascending sort.
RankOrder_Ascending(keys) ==
    LET n == Len(keys)
        pos(i) == 1 + Cardinality({ j \in 1..n :
                        keys[j] < keys[i] \/ (keys[j] = keys[i] /\ j < i) })
    IN [k \in 1..n |-> CHOOSE i \in 1..n : pos(i) = k]

\* Line 39: sorted(documents, key=rerank_score, reverse=True), as the order
\* of the indexes of documents; the sort is stable, so equal scores keep
\* their order.
RankOrder(keys) ==
    LET n == Len(keys)
        pos(i) == 1 + Cardinality({ j \in 1..n :
                        keys[j] > keys[i] \/ (keys[j] = keys[i] /\ j < i) })
    IN [k \in 1..n |-> CHOOSE i \in 1..n : pos(i) = k]

\* Line 39: lst[:top_n] for top_n >= 0.
TopN(lst, top_n) == SubSeq(lst, 1, IF top_n < Len(lst) THEN top_n ELSE Len(lst))

\* metadata.get('source_name', 'N/A').
SourceName(meta) == IF meta.source_name = NoSource THEN "N/A" ELSE meta.source_name

\* Line 119: one block of the context string, as its pieces.
FormatBlock(meta, content) == <<"Source: ", SourceName(meta), "\nContent: ", content>>

RECURSIVE Join(_, _)
\* sep.join(blocks)
Join(blocks, sep) ==
    IF blocks = <<>> THEN <<>>
    ELSE IF Len(blocks) = 1 THEN blocks[1]
    ELSE blocks[1] \o <<sep>> \o Join(Tail(blocks), sep)

\* A chunk serialized under a key the metadata does not have.
SerializeChunk_WrongKey(meta, content) == [text |-> content, source |-> "N/A"]

\* Line 124: one entry of serialized_chunks.
SerializeChunk(meta, content) == [text |-> content, source |-> SourceName(meta)]

\* Every stage failing alike.
StageError_Same(stage) == "VectorSearchError"

\* Lines 91, 101, 115: the exception each stage's try block raises.
StageError(stage) ==
    CASE stage = "vector" -> "VectorSearchError"
      [] stage = "keyword" -> "KeywordSearchError"
      [] stage = "rerank" -> "RerankError"

\* What similarity_search can return: Documents built from the stored
\* records, each with a dict of its own.
VectorResults(k) ==
    SeqsUpTo({ OwnDoc(d.page_content, d.source_name) : d \in DocKinds }, k)

\* Ordered choices of m distinct indexes out of 1..n.
Selections(n, m) ==
    { q \in [1..m -> 1..n] : \A a, b \in 1..m : a # b => q[a] # q[b] }

\* BM25Retriever.from_documents builds Document(page_content=t, metadata=m)
\* from each element of all_docs: a new object whose metadata is the dict of
\* docs[i] itself or a copy of it, by the build.
KeywordDoc(ds, shared, i) ==
    IF shared
    THEN [page_content |-> ds[i].page_content, source_name |-> NoSource,
          rerank_score |-> NoScore, ref |-> i]
    ELSE [page_content |-> ds[i].page_content, source_name |-> ds[i].source_name,
          rerank_score |-> ds[i].rerank_score, ref |-> 0]

Min(a, b) == IF a < b THEN a ELSE b

\* The frame of thread p after its call raised the error of the stage.
Failed_(p, stage) ==
    [call[p] EXCEPT !.pc = "done",
                    !.stages = IF Has(@, stage) THEN @ ELSE Append(@, stage),
                    !.result = [kind |-> StageError(stage), context |-> <<>>, chunks |-> <<>>]]

\* A request thread enters retrieve_context(query, docs, initial_k, final_k).
StartRetrieve(p, Ks, FKs) ==
    /\ call[p].pc = "idle"
    /\ \E k \in Ks, fk \in FKs :
         call' = [call EXCEPT ![p] =
                    [IdleFrame EXCEPT !.pc = "vector", !.initial_k = k, !.final_k = fk]]
    /\ UNCHANGED <<docs, shares_metadata, docs0, indexVars, loaderVars, refreshVars, serviceVars>>

\* Lines 85-91: similarity_search(query, k=initial_k) returns at most
\* initial_k documents (at most cap of them are considered); any exception
\* becomes VectorSearchError.
VectorSearch(p, cap) ==
    /\ call[p].pc = "vector"
    /\ \E ok \in BOOLEAN :
         IF ok
         THEN \E vd \in VectorResults(Min(call[p].initial_k, cap)) :
                call' = [call EXCEPT ![p].pc = "keyword",
                                     ![p].stages = Append(@, "vector"),
                                     ![p].vector_docs = vd]
         ELSE call' = [call EXCEPT ![p] = Failed_(p, "vector")]
    /\ UNCHANGED <<docs, shares_metadata, docs0, indexVars, loaderVars, refreshVars, serviceVars>>

\* Lines 93-101: a BM25 index over all_docs is built for this call and asked
\* for its top initial_k; from_documents raises on an empty list (nothing to
\* unpack); any exception becomes KeywordSearchError.
KeywordSearch(p) ==
    /\ call[p].pc = "keyword"
    /\ \E ok \in BOOLEAN :
         IF ok /\ docs # <<>>
         THEN \E sel \in Selections(Len(docs), Min(call[p].initial_k, Len(docs))) :
                call' = [call EXCEPT ![p].pc = "combine",
                                     ![p].stages = Append(@, "keyword"),
                                     ![p].keyword_docs =
                                        [i \in 1..Len(sel) |->
                                            KeywordDoc(docs, shares_metadata, sel[i])]]
         ELSE call' = [call EXCEPT ![p] = Failed_(p, "keyword")]
    /\ UNCHANGED <<docs, shares_metadata, docs0, indexVars, loaderVars, refreshVars, serviceVars>>

\* Lines 106-108: vector results first, then keyword results, deduplicated
\* by page_content.
Combine(p) ==
    /\ call[p].pc = "combine"
    /\ call' = [call EXCEPT ![p].pc = "predict",
                            ![p].stages = Append(@, "rerank"),
                            ![p].unique_docs =
                                Dedup(call[p].vector_docs \o call[p].keyword_docs)]
    /\ UNCHANGED <<docs, shares_metadata, docs0, indexVars, loaderVars, refreshVars, serviceVars>>

\* Reranker.rerank lines 35-36: the cross-encoder scores every
\* (query, page_content) pair; an exception becomes RerankError (line 115).
Predict(p) ==
    /\ call[p].pc = "predict"
    /\ \E ok \in BOOLEAN :
         IF ok
         THEN \E sc \in [1..Len(call[p].unique_docs) -> Scores] :
                call' = [call EXCEPT ![p].pc = "write", ![p].scores = sc]
         ELSE call' = [call EXCEPT ![p] = Failed_(p, "rerank")]
    /\ UNCHANGED <<docs, shares_metadata, docs0, indexVars, loaderVars, refreshVars, serviceVars>>

\* Reranker.rerank lines 37-38: doc.metadata["rerank_score"] = float(score)
\* for every document, in the dict the document's metadata is.
WriteScores(p) ==
    /\ call[p].pc = "write"
    /\ LET u == call[p].unique_docs
           sc == call[p].scores
       IN /\ call' = [call EXCEPT ![p].pc = "sort",
                                  ![p].unique_docs =
                                     [i \in 1..Len(u) |->
                                        IF u[i].ref = 0
                                        THEN [u[i] EXCEPT !.rerank_score = sc[i]]
                                        ELSE u[i]]]
          /\ docs' = [d \in 1..Len(docs) |->
                        IF \E i \in 1..Len(u) : u[i].ref = d
                        THEN [docs[d] EXCEPT !.rerank_score =
                                sc[CHOOSE i \in 1..Len(u) : u[i].ref = d]]
                        ELSE docs[d]]
    /\ UNCHANGED <<shares_metadata, docs0, indexVars, loaderVars, refreshVars, serviceVars>>

\* Reranker.rerank line 39 and retrieve_context lines 117-128: the documents
\* sorted by the rerank_score their metadata holds, cut to final_k, then the
\* context string and the serialized chunks.
SortAndReturn(p) ==
    /\ call[p].pc = "sort"
    /\ \E keys \in { [i \in 1..Len(call[p].unique_docs) |->
                        MetaOf(docs, call[p].unique_docs[i]).rerank_score] } :
       \E order \in { RankOrder(keys) } :
       \E ranked \in { TopN([k \in 1..Len(order) |-> call[p].unique_docs[order[k]]],
                            call[p].final_k) } :
         LET blocks == [i \in 1..Len(ranked) |->
                          FormatBlock(MetaOf(docs, ranked[i]), ranked[i].page_content)]
             chunks == [i \in 1..Len(ranked) |->
                          SerializeChunk(MetaOf(docs, ranked[i]), ranked[i].page_content)]
         IN call' = [call EXCEPT ![p].pc = "done",
                                 ![p].result = [kind |-> "returned",
                                                context |-> Join(blocks, "\n\n"),
                                                chunks |-> chunks]]
    /\ UNCHANGED <<docs, shares_metadata, docs0, indexVars, loaderVars, refreshVars, serviceVars>>

\* The caller gives up on a call in flight (the request is dropped).
Abandon(p) ==
    /\ call[p].pc \in {"vector", "keyword", "combine", "predict", "write", "sort"}
    /\ call' = [call EXCEPT ![p].pc = "abandoned",
                            ![p].result = [kind |-> "abandoned", context |-> <<>>,
                                           chunks |-> <<>>]]
    /\ UNCHANGED <<docs, shares_metadata, docs0, indexVars, loaderVars, refreshVars, serviceVars>>

\* The serving process after start-up: docs loaded, no request yet. The
\* index is not touched by retrieval.
InitRetrieve ==
    /\ disk = RemovedDir
    /\ content_root = [exists |-> FALSE, raw |-> 0, chunks |-> 0]
    /\ chunk_config = [size |-> 1, overlap |-> 0]
    /\ IndexIdle
    /\ LoaderIdle
    /\ docs \in DocLists
    /\ docs0 = docs
    /\ shares_metadata \in BOOLEAN
    /\ call = [p \in Procs |-> IdleFrame]
    /\ RefreshIdle
    /\ ServiceIdle

\* One request at a time.
NextRetrieve ==
    \/ StartRetrieve(1, 1..MaxK, 0..MaxK)
    \/ VectorSearch(1, MaxK)
    \/ KeywordSearch(1)
    \/ Combine(1)
    \/ Predict(1)
    \/ WriteScores(1)
    \/ SortAndReturn(1)

SpecRetrieve == InitRetrieve /\ [][NextRetrieve]_vars

\* Two request threads of the serving process call retrieve_context on the
\* same retriever with the same module-level docs; a thread switch can fall
\* between any two steps of a call.
NextConcurrent ==
    \E p \in Procs :
        \/ StartRetrieve(p, {1}, {MaxK})
        \/ VectorSearch(p, 1)
        \/ KeywordSearch(p)
        \/ Combine(p)
        \/ Predict(p)
        \/ WriteScores(p)
        \/ SortAndReturn(p)
        \/ Abandon(p)

SpecConcurrent == InitRetrieve /\ [][NextConcurrent]_vars

----------------------------------------------------------------------------
(* Startup and refresh: initialize_rag_retriever run by several requests   *)

\* The positions of a request inside its clear-then-repopulate run.
RebuildPcs == {"clear1", "create1", "load", "clear2", "create2", "insert"}

\* The index variables a rebuild run by a request does not use.
requestFrame == <<content_root, chunk_config, vector_store, op, pc, epc, force_rebuild,
                  documents_to_index, inserted, result, ops, pre, forced_given,
                  loadOutcome, partialBy, createFailed, envFailed, lrCounts,
                  loaderVars, retrievalVars, serviceVars>>

\* A caller that starts every rebuild at once.
MayStartRebuild_Always(p) == TRUE

\* The caller serialises the requests: a rebuild starts only while no other
\* request is inside its own.
MayStartRebuild(p) == \A q \in RProcs \ {p} : rpc[q] \notin RebuildPcs

\* lifespan_startup_shutdown lines 73-79: the startup initialisation, before
\* the application serves any request.
ArriveStartup ==
    /\ rpc["startup"] = "idle"
    /\ \A q \in RProcs : rpc[q] = "idle"
    /\ rag_retriever = "none"
    /\ rpc' = [rpc EXCEPT !["startup"] = "waiting"]
    /\ UNCHANGED <<disk, rvs, rinserted, rag_retriever, requestFrame>>

\* A GET /refresh-corpora request reaches the serving application (after the
\* startup completed and installed its retriever).
ArriveRefresh(p) ==
    /\ p # "startup"
    /\ rpc[p] = "idle"
    /\ rpc["startup"] = "done"
    /\ rag_retriever # "none"
    /\ rpc' = [rpc EXCEPT ![p] = "waiting"]
    /\ UNCHANGED <<disk, rvs, rinserted, rag_retriever, requestFrame>>

\* The request is let into initialize_rag_retriever: VectorRetrieverLoader is
\* constructed (a new VectorStoreManager, vector_store = None) and
\* load_retriever begins.
AdmitRebuild(p) ==
    /\ rpc[p] = "waiting"
    /\ MayStartRebuild(p)
    /\ rpc' = [rpc EXCEPT ![p] = "clear1"]
    /\ rvs' = [rvs EXCEPT ![p] = "None"]
    /\ rinserted' = [rinserted EXCEPT ![p] = 0]
    /\ UNCHANGED <<disk, rag_retriever, requestFrame>>

\* load_retriever lines 53 and 76-79, the head of a forced call
\* (load_or_create_vector_store lines 102-116): instantiate for the clear,
\* then clear; VectorStoreError ends the request.
RebuildClear(p) ==
    /\ rpc[p] \in {"clear1", "clear2"}
    /\ \E ok \in BOOLEAN, out \in ClearOutcomes :
         LET i == InstantiateForClear(rvs[p], disk, ok)
             r == ClearExistingCollection(i.vs, i.disk, out)
         IN /\ disk' = r.disk
            /\ rvs' = [rvs EXCEPT ![p] = r.vs]
            /\ rpc' = [rpc EXCEPT ![p] =
                            IF r.raised THEN "failed"
                            ELSE IF rpc[p] = "clear1" THEN "create1" ELSE "create2"]
    /\ UNCHANGED <<rinserted, rag_retriever, requestFrame>>

\* The create step of a forced call (lines 144-164): Chroma(...) gets or
\* creates the collection, empty when no documents were passed; with
\* documents the bulk insert follows.
RebuildCreate(p) ==
    /\ rpc[p] \in {"create1", "create2"}
    /\ \E ok \in BOOLEAN :
         IF ok
         THEN /\ disk' = ChromaCtor(disk)
              /\ rvs' = [rvs EXCEPT ![p] = "Chroma"]
              /\ rpc' = [rpc EXCEPT ![p] =
                              IF rpc[p] = "create1" THEN "load"
                              ELSE IF content_root.chunks = 0 THEN "swap" ELSE "insert"]
         ELSE /\ rpc' = [rpc EXCEPT ![p] = "failed"]
              /\ UNCHANGED <<disk, rvs>>
    /\ UNCHANGED <<rinserted, rag_retriever, requestFrame>>

\* load_retriever lines 56-70: load_raw_documents (FileNotFoundError on a
\* missing root), chunk_documents and the log line reading chunks[0].
RebuildLoad(p) ==
    /\ rpc[p] = "load"
    /\ rpc' = [rpc EXCEPT ![p] =
                  IF ~content_root.exists THEN "failed"
                  ELSE IF content_root.raw = 0 THEN "clear2"
                  ELSE IF SplitterRejects(chunk_config) \/ content_root.chunks = 0
                       THEN "failed"
                  ELSE "clear2"]
    /\ UNCHANGED <<disk, rvs, rinserted, rag_retriever, requestFrame>>

\* One batch of Chroma.from_documents (line 151).
RebuildInsert(p) ==
    /\ rpc[p] = "insert"
    /\ \E ok \in BOOLEAN :
         IF ok /\ disk.coll.exists /\ disk.coll.cnt[rinserted[p] + 1] < MaxCopies
         THEN /\ disk' = AddChunk(disk, rinserted[p] + 1)
              /\ rinserted' = [rinserted EXCEPT ![p] = @ + 1]
              /\ rpc' = [rpc EXCEPT ![p] =
                              IF rinserted[p] + 1 = content_root.chunks
                              THEN "swap" ELSE "insert"]
         ELSE /\ rpc' = [rpc EXCEPT ![p] = "failed"]
              /\ UNCHANGED <<disk, rinserted>>
    /\ UNCHANGED <<rvs, rag_retriever, requestFrame>>

\* A caller that installs whatever the call left behind, also after it raised.
BuildReturned_OrRaised(p) == rpc[p] \in {"swap", "failed"}

\* initialize_rag_retriever returned its retriever (line 56) to the caller,
\* which has not stored it yet.
BuildReturned(p) == rpc[p] = "swap"

\* update_rag_retriever (lines 62-65), or line 84 at startup: the new
\* retriever is installed in STATE.
InstallRetriever(p) ==
    /\ BuildReturned(p)
    /\ rag_retriever' = p
    /\ rpc' = [rpc EXCEPT ![p] = "done"]
    /\ UNCHANGED <<disk, rvs, rinserted, requestFrame>>

\* The request is answered (success, or the RuntimeError of lines 58-60);
\* the client can send the next one. A failed startup ends the application.
AnswerRefresh(p) ==
    /\ p # "startup"
    /\ rpc[p] \in {"done", "failed"}
    /\ rpc' = [rpc EXCEPT ![p] = "idle"]
    /\ UNCHANGED <<disk, rvs, rinserted, rag_retriever, requestFrame>>

InitRefresh ==
    /\ disk \in DiskStates
    /\ content_root \in ContentRoots
    /\ chunk_config = [size |-> MaxChunkSize, overlap |-> 0]
    /\ IndexIdle
    /\ LoaderIdle
    /\ RetrieverIdle
    /\ RefreshIdle
    /\ ServiceIdle

NextRefresh ==
    \/ ArriveStartup
    \/ \E p \in RProcs :
        \/ ArriveRefresh(p)
        \/ AdmitRebuild(p)
        \/ RebuildClear(p)
        \/ RebuildCreate(p)
        \/ RebuildLoad(p)
        \/ RebuildInsert(p)
        \/ InstallRetriever(p)
        \/ AnswerRefresh(p)

SpecRefresh == InitRefresh /\ [][NextRefresh]_vars

----------------------------------------------------------------------------
(* The /chat endpoint: Config, chat(), generate_answer                     *)

\* The defaults of rag/app/config.py lines 20-21.
TOP_K_CHUNKS_ON_RETRIEVER_DEFAULT == 5
TOP_K_CHUNKS_ON_RERANKER_DEFAULT == 3

\* The values the two variables can be set to in the environment.
EnvValues == {Unset} \cup (1..MaxK)

\* int(os.getenv(name, default)).
EnvInt(v, default) == IF v = Unset THEN default ELSE v

\* class Config, evaluated once at import.
Config(e) ==
    [TOP_K_CHUNKS_ON_RETRIEVER |->
        EnvInt(e.TOP_K_CHUNKS_ON_RETRIEVER, TOP_K_CHUNKS_ON_RETRIEVER_DEFAULT),
     TOP_K_CHUNKS_ON_RERANKER |->
        EnvInt(e.TOP_K_CHUNKS_ON_RERANKER, TOP_K_CHUNKS_ON_RERANKER_DEFAULT)]

\* generate_answer lines 73-78: the keyword arguments of retrieve_context.
RetrieveArgs(cfg) ==
    [initial_k |-> cfg.TOP_K_CHUNKS_ON_RERANKER, final_k |-> cfg.TOP_K_CHUNKS_ON_RETRIEVER]

\* The frame of every retrieval step run for the /chat request.
chatFrame == <<docs, shares_metadata, docs0, env, indexVars, loaderVars, refreshVars, dbVars,
              appVars, queryVars>>

\* chat() lines 110-115: a POST /chat with a non-empty query enters
\* generate_answer, which calls retrieve_context.
GenerateAnswer ==
    /\ chat.pc = "idle"
    /\ call[1].pc = "idle"
    /\ LET args == RetrieveArgs(Config(env))
       IN call' = [call EXCEPT ![1] =
                     [IdleFrame EXCEPT !.pc = "vector",
                                       !.initial_k = args.initial_k,
                                       !.final_k = args.final_k]]
    /\ chat' = [chat EXCEPT !.pc = "retrieve"]
    /\ UNCHANGED chatFrame

\* generate_answer lines 79-101 and chat() lines 116-126: the prompt goes to
\* the model, the chunk ids are collected for the log (the serialized chunks
\* have the keys text and source, so chunk["id"] raises KeyError as soon as
\* there is a chunk), and the answer is sent; any exception is answered 500.
AnswerChat ==
    /\ chat.pc = "retrieve"
    /\ call[1].pc = "done"
    /\ \E llm_ok \in BOOLEAN :
         chat' = [pc |-> "answered",
                  status |-> IF /\ call[1].result.kind = "returned"
                                /\ llm_ok
                                /\ call[1].result.chunks = <<>>
                             THEN 200 ELSE 500]
    /\ UNCHANGED <<call, chatFrame>>

\* The serving process after import: Config read from the environment, docs
\* loaded, no request yet.
InitChat ==
    /\ disk = RemovedDir
    /\ content_root = [exists |-> FALSE, raw |-> 0, chunks |-> 0]
    /\ chunk_config = [size |-> 1, overlap |-> 0]
    /\ IndexIdle
    /\ LoaderIdle
    /\ docs \in DocLists
    /\ docs0 = docs
    /\ shares_metadata \in BOOLEAN
    /\ call = [p \in Procs |-> IdleFrame]
    /\ RefreshIdle
    /\ env \in [TOP_K_CHUNKS_ON_RETRIEVER : EnvValues, TOP_K_CHUNKS_ON_RERANKER : EnvValues]
    /\ chat = [pc |-> "idle", status |-> 0]
    /\ DbIdle
    /\ AppIdle
    /\ QueryIdle

NextChat ==
    \/ GenerateAnswer
    \/ VectorSearch(1, MaxK)
    \/ KeywordSearch(1)
    \/ Combine(1)
    \/ Predict(1)
    \/ WriteScores(1)
    \/ SortAndReturn(1)
    \/ AnswerChat

SpecChat == InitChat /\ [][NextChat]_vars

----------------------------------------------------------------------------
(* The metadata store: JsonFileManager and JsonRepository                  *)

\* load_db lines 51-60: an empty file and a file that is no valid JSON (one
\* written only in part) both read as {}; the collection is
\* db.get(collection_name, []).
ParseDb(f) == IF f.written = "complete" THEN f.data ELSE <<>>

\* The ids of the items of a collection.
IdsOf(coll) == { coll[i].id : i \in 1..Len(coll) }

\* A create that checks nothing.
IdTaken_Never(coll, id) == FALSE

\* create line 31: any(item.get('id') == new_item.id for item in collection).
IdTaken(coll, id) == \E i \in 1..Len(coll) : coll[i].id = id

\* create line 35: the validated item as stored (an item is told from the
\* others by its id; its other fields are not followed).
Item(id) == [id |-> id]

\* update lines 78-91: the first item of that id is replaced by the merged
\* and validated item, which keeps the id.
Updated(coll, id) ==
    LET index == CHOOSE i \in 1..Len(coll) :
                    /\ coll[i].id = id
                    /\ \A j \in 1..(i - 1) : coll[j].id # id
    IN [coll EXCEPT ![index] = Item(id)]

\* delete line 104: every item of another id.
Without(coll, id) == SelectSeq(coll, LAMBDA it : it.id # id)

\* The call of request p ends with this outcome; its local db is dropped.
Ret(p, res) == [req[p] EXCEPT !.pc = "ret", !.db = <<>>, !.result = res]

\* The history of committed creates and deletes after the call of p wrote.
Committed(p) ==
    IF req[p].op = "create" THEN alive \cup {req[p].id}
    ELSE IF req[p].op = "delete" THEN alive \ {req[p].id}
    ELSE alive

\* What the steps of the store leave alone.
dbFrame == <<indexVars, loaderVars, retrievalVars, refreshVars, chatVars, appVars, queryVars>>

\* The operations of JsonRepository.
RepoOps == {"create", "update", "delete", "find_all"}

\* A caller enters create, update, delete or find_all; create validates the
\* item first (lines 21-25) and raises DataValidationError before any I/O.
RepoCall(p) ==
    /\ req[p].pc = "idle"
    /\ \E o \in RepoOps, id \in Ids, valid \in BOOLEAN :
         req' = [req EXCEPT ![p] =
                   IF o = "create" /\ ~valid
                   THEN [IdleReq EXCEPT !.pc = "ret", !.op = o, !.id = id,
                                        !.result = "DataValidationError"]
                   ELSE [IdleReq EXCEPT !.pc = "load", !.op = o, !.id = id]]
    /\ UNCHANGED <<rename_replaces, db_file, tmp_file, stored, used, alive, dbFrame>>

\* load_db (lines 47-63) under the shared lock, and the in-memory part of
\* the operation: create lines 28-36, update lines 74-92, delete lines
\* 100-109, find_all lines 43-54, find_by_id lines 58-69.
LoadDb(p) ==
    /\ req[p].pc = "load"
    /\ \E ok \in BOOLEAN, valid \in BOOLEAN :
         LET collection == ParseDb(db_file)
             id == req[p].id
             save(c) == [req[p] EXCEPT !.pc = "open", !.db = c]
         IN req' = [req EXCEPT ![p] =
              IF ~ok THEN Ret(p, "PersistenceError")
              ELSE CASE req[p].op = "create" ->
                          IF IdTaken(collection, id) THEN Ret(p, "IntegrityError")
                          ELSE save(Append(collection, Item(id)))
                     [] req[p].op = "update" ->
                          IF id \notin IdsOf(collection) THEN Ret(p, "ValueError")
                          ELSE IF ~valid THEN Ret(p, "DataValidationError")
                          ELSE save(Updated(collection, id))
                     [] req[p].op = "delete" ->
                          IF id \notin IdsOf(collection) THEN Ret(p, "False")
                          ELSE save(Without(collection, id))
                     [] req[p].op = "find_all" ->
                          Ret(p, "ok")
                     [] req[p].op = "find_by_id" ->
                          IF id \notin IdsOf(collection) THEN Ret(p, "None")
                          ELSE IF ~valid THEN Ret(p, "DataValidationError")
                          ELSE Ret(p, "ok")]
    /\ UNCHANGED <<rename_replaces, db_file, tmp_file, stored, used, alive, dbFrame>>

\* save_db lines 70-74: the temporary file, named by a fresh uuid, is opened
\* for writing and locked; a failure becomes PersistenceError.
SaveOpen(p) ==
    /\ req[p].pc = "open"
    /\ \E ok \in BOOLEAN :
         IF ok
         THEN /\ tmp_file' = [tmp_file EXCEPT ![p] = EmptyFile]
              /\ req' = [req EXCEPT ![p].pc = "dump"]
         ELSE /\ tmp_file' = tmp_file
              /\ req' = [req EXCEPT ![p] = Ret(p, "PersistenceError")]
    /\ UNCHANGED <<rename_replaces, db_file, stored, used, alive, dbFrame>>

\* save_db lines 75-79: json.dump, flush, fsync; when one of them raises the
\* handler of lines 89-95 removes the temporary file.
SaveDump(p) ==
    /\ req[p].pc = "dump"
    /\ \E ok \in BOOLEAN :
         IF ok
         THEN /\ tmp_file' = [tmp_file EXCEPT ![p] = Complete(req[p].db)]
              /\ req' = [req EXCEPT ![p].pc = "move"]
         ELSE /\ tmp_file' = [tmp_file EXCEPT ![p] = Absent]
              /\ req' = [req EXCEPT ![p] = Ret(p, "PersistenceError")]
    /\ UNCHANGED <<rename_replaces, db_file, stored, used, alive, dbFrame>>

\* save_db line 82, shutil.move(temp_file_path, self.file_path): os.rename
\* first. Where os.rename replaces the destination the DB file becomes the
\* temporary file in one step; where it raises because the destination
\* exists, shutil.move goes on to copy the file over the destination.
SaveMove(p) ==
    /\ req[p].pc = "move"
    /\ IF rename_replaces
       THEN /\ db_file' = tmp_file[p]
            /\ tmp_file' = [tmp_file EXCEPT ![p] = Absent]
            /\ req' = [req EXCEPT ![p] = Ret(p, "ok")]
            /\ alive' = Committed(p)
       ELSE /\ req' = [req EXCEPT ![p].pc = "copy_open"]
            /\ UNCHANGED <<db_file, tmp_file, alive>>
    /\ UNCHANGED <<rename_replaces, stored, used, dbFrame>>

\* shutil.move's copy: the destination is opened for writing, which
\* truncates it; a failure ends save_db in the handler of lines 89-95.
CopyOpen(p) ==
    /\ req[p].pc = "copy_open"
    /\ \E ok \in BOOLEAN :
         IF ok
         THEN /\ db_file' = EmptyFile
              /\ req' = [req EXCEPT ![p].pc = "copy_write"]
              /\ tmp_file' = tmp_file
         ELSE /\ db_file' = db_file
              /\ tmp_file' = [tmp_file EXCEPT ![p] = Absent]
              /\ req' = [req EXCEPT ![p] = Ret(p, "PersistenceError")]
    /\ UNCHANGED <<rename_replaces, stored, used, alive, dbFrame>>

\* shutil.move's copy: the content is written to the destination and the
\* temporary file unlinked; a write that fails midway leaves the part
\* written so far, and save_db removes the temporary file and raises.
CopyWrite(p) ==
    /\ req[p].pc = "copy_write"
    /\ \E ok \in BOOLEAN :
         IF ok
         THEN /\ db_file' = tmp_file[p]
              /\ req' = [req EXCEPT ![p] = Ret(p, "ok")]
              /\ alive' = Committed(p)
         ELSE /\ db_file' = Partial(tmp_file[p].data)
              /\ req' = [req EXCEPT ![p] = Ret(p, "PersistenceError")]
              /\ alive' = alive
    /\ tmp_file' = [tmp_file EXCEPT ![p] = Absent]
    /\ UNCHANGED <<rename_replaces, stored, used, dbFrame>>

\* The call returned or raised; the caller goes on.
RepoReturn(p) ==
    /\ req[p].pc = "ret"
    /\ req[p].handler = "none"
    /\ req' = [req EXCEPT ![p] = IdleReq]
    /\ UNCHANGED <<rename_replaces, db_file, tmp_file, stored, used, alive, dbFrame>>

\* The application after startup on either kind of platform: the DB file as
\* the constructor left it.
InitDb ==
    /\ disk = RemovedDir
    /\ content_root = [exists |-> FALSE, raw |-> 0, chunks |-> 0]
    /\ chunk_config = [size |-> 1, overlap |-> 0]
    /\ IndexIdle
    /\ LoaderIdle
    /\ RetrieverIdle
    /\ RefreshIdle
    /\ ChatIdle
    /\ AppIdle
    /\ QueryIdle
    /\ rename_replaces \in BOOLEAN
    /\ db_file = Complete(<<>>)
    /\ tmp_file = [p \in DbProcs |-> Absent]
    /\ req = [p \in DbProcs |-> IdleReq]
    /\ stored = {}
    /\ used = {}
    /\ alive = {}

\* Two callers of the repository, a switch between any two file operations.
NextDb ==
    \E p \in DbProcs :
        \/ RepoCall(p)
        \/ LoadDb(p)
        \/ SaveOpen(p)
        \/ SaveDump(p)
        \/ SaveMove(p)
        \/ CopyOpen(p)
        \/ CopyWrite(p)
        \/ RepoReturn(p)

SpecDb == InitDb /\ [][NextDb]_vars

----------------------------------------------------------------------------
(* The resource endpoints: upload_resource and delete_resource             *)

\* The request of p is answered with this status code.
Answered(p, code) ==
    [IdleReq EXCEPT !.pc = "hdone", !.handler = req[p].handler, !.id = req[p].id,
                    !.status = code]

\* An error handler that leaves the stored file where it is.
RemoveStored_Keep(files, id) == files

\* upload_resource lines 65-66 and 70-71, delete_resource lines 142-143:
\* os.remove(path) when os.path.exists(path).
RemoveStored(files, id) == files \ {id}

\* upload_resource lines 32-59: uuid4 gives an id no resource has, the
\* upload is written under STORAGE_DIR (a failure of the write is handled by
\* lines 69-73: what was written is removed and 500 answered), then
\* resource_repo.create is entered, which validates the record first.
UploadBegin(p) ==
    /\ req[p].pc = "idle"
    /\ \E id \in Ids \ used, written \in BOOLEAN, valid \in BOOLEAN :
         /\ used' = used \cup {id}
         /\ IF ~written
            THEN /\ stored' = stored
                 /\ req' = [req EXCEPT ![p] =
                              [IdleReq EXCEPT !.pc = "hdone", !.handler = "upload",
                                              !.id = id, !.status = 500]]
            ELSE /\ stored' = stored \cup {id}
                 /\ req' = [req EXCEPT ![p] =
                              IF valid
                              THEN [IdleReq EXCEPT !.pc = "load", !.handler = "upload",
                                                   !.op = "create", !.id = id]
                              ELSE [IdleReq EXCEPT !.pc = "ret", !.handler = "upload",
                                                   !.op = "create", !.id = id,
                                                   !.result = "DataValidationError"]]
    /\ UNCHANGED <<rename_replaces, db_file, tmp_file, alive, dbFrame>>

\* upload_resource lines 59-73: create returned (201), raised
\* IntegrityError (the file is removed, 409) or raised anything else (the
\* file is removed, 500).
UploadEnd(p) ==
    /\ req[p].handler = "upload"
    /\ req[p].pc = "ret"
    /\ IF req[p].result = "ok"
       THEN /\ req' = [req EXCEPT ![p] = Answered(p, 201)]
            /\ stored' = stored
       ELSE /\ req' = [req EXCEPT ![p] =
                         Answered(p, IF req[p].result = "IntegrityError" THEN 409 ELSE 500)]
            /\ stored' = RemoveStored(stored, req[p].id)
    /\ UNCHANGED <<rename_replaces, db_file, tmp_file, used, alive, dbFrame>>

\* delete_resource lines 132-134: find_by_id is entered.
DeleteBegin(p) ==
    /\ req[p].pc = "idle"
    /\ \E id \in Ids :
         req' = [req EXCEPT ![p] =
                   [IdleReq EXCEPT !.pc = "load", !.handler = "delete_resource",
                                   !.op = "find_by_id", !.id = id]]
    /\ UNCHANGED <<rename_replaces, db_file, tmp_file, stored, used, alive, dbFrame>>

\* delete_resource lines 134-149: no record is answered 404 and an error of
\* find_by_id 500; otherwise the file is removed from disk if it is there,
\* and resource_repo.delete is entered.
DeleteFile(p) ==
    /\ req[p].handler = "delete_resource"
    /\ req[p].op = "find_by_id"
    /\ req[p].pc = "ret"
    /\ IF req[p].result = "ok"
       THEN /\ stored' = RemoveStored(stored, req[p].id)
            /\ req' = [req EXCEPT ![p] =
                         [IdleReq EXCEPT !.pc = "load", !.handler = "delete_resource",
                                         !.op = "delete", !.id = req[p].id]]
       ELSE /\ stored' = stored
            /\ req' = [req EXCEPT ![p] =
                         Answered(p, IF req[p].result = "None" THEN 404 ELSE 500)]
    /\ UNCHANGED <<rename_replaces, db_file, tmp_file, used, alive, dbFrame>>

\* delete_resource lines 149-159: delete returned True (204), returned False
\* (RepositoryError, 500) or raised (500).
DeleteEnd(p) ==
    /\ req[p].handler = "delete_resource"
    /\ req[p].op = "delete"
    /\ req[p].pc = "ret"
    /\ req' = [req EXCEPT ![p] = Answered(p, IF req[p].result = "ok" THEN 204 ELSE 500)]
    /\ UNCHANGED <<rename_replaces, db_file, tmp_file, stored, used, alive, dbFrame>>

\* The response is sent; the worker takes the next request.
NextRequest(p) ==
    /\ req[p].pc = "hdone"
    /\ req' = [req EXCEPT ![p] = IdleReq]
    /\ UNCHANGED <<rename_replaces, db_file, tmp_file, stored, used, alive, dbFrame>>

\* The application after startup, no resource uploaded yet.
InitResources == InitDb

\* Two workers serving upload and delete requests.
NextResources ==
    \E p \in DbProcs :
        \/ UploadBegin(p)
        \/ UploadEnd(p)
        \/ DeleteBegin(p)
        \/ DeleteFile(p)
        \/ DeleteEnd(p)
        \/ NextRequest(p)
        \/ LoadDb(p)
        \/ SaveOpen(p)
        \/ SaveDump(p)
        \/ SaveMove(p)
        \/ CopyOpen(p)
        \/ CopyWrite(p)

SpecResources == InitResources /\ [][NextResources]_vars

----------------------------------------------------------------------------
(* The application state: lifespan, STATE and its readers                  *)

\* The lifespan and one refresh of the running application.
AppProcs == {"startup", "refresh1"}

\* Lines 81-85: the keys the lifespan sets.
StateKeys == {"DB_MANAGER", "RESOURCE_REPO", "EMBEDDING_MODEL", "RAG_RETRIEVER", "AI_SERVICE"}

\* A reader served from a copy of the collection taken when it got its retriever.
Visible_Snapshot(coll, at_get) == at_get

\* What a query through a retriever reads: the retriever holds no copy, it
\* reads the named collection of the persist directory as it is at the call
\* (at_get, the collection as it was when the retriever was handed out, plays
\* no part).
Visible(coll, at_get) == coll

appFrame == <<content_root, chunk_config, vector_store, op, pc, epc, force_rebuild,
              documents_to_index, inserted, result, ops, pre, forced_given,
              loadOutcome, partialBy, createFailed, envFailed, lrCounts,
              loaderVars, retrievalVars, chatVars, dbVars, queryVars>>

\* lifespan_startup_shutdown lines 73-79: the metadata store, the embedding
\* model and the AI service are constructed (any of them can raise), then
\* initialize_rag_retriever is entered.
LifespanStart ==
    /\ \A q \in RProcs : rpc[q] = "idle"
    /\ rag_retriever = "none"
    /\ STATE_keys = {}
    /\ \E ok \in BOOLEAN :
         rpc' = [rpc EXCEPT !["startup"] = IF ok THEN "clear1" ELSE "failed"]
    /\ UNCHANGED <<disk, rvs, rinserted, rag_retriever, STATE_keys, reader, appFrame>>

\* Lines 81-85: initialize_rag_retriever returned; the five keys are set.
LifespanInstall ==
    /\ BuildReturned("startup")
    /\ rag_retriever' = "startup"
    /\ STATE_keys' = STATE_keys \cup StateKeys
    /\ rpc' = [rpc EXCEPT !["startup"] = "done"]
    /\ UNCHANGED <<disk, rvs, rinserted, reader, appFrame>>

\* Lines 87-90: the except branch of the lifespan: STATE.clear(), and the
\* exception ends the application.
LifespanFails ==
    /\ rpc["startup"] = "failed"
    /\ STATE_keys' = {}
    /\ rag_retriever' = "none"
    /\ rpc' = [rpc EXCEPT !["startup"] = "stopped"]
    /\ UNCHANGED <<disk, rvs, rinserted, reader, appFrame>>

\* Lines 92-95: shutdown of the serving application: STATE.clear().
LifespanShutdown ==
    /\ rpc["startup"] = "done"
    /\ \A q \in RProcs \ {"startup"} : rpc[q] = "idle"
    /\ STATE_keys' = {}
    /\ rag_retriever' = "none"
    /\ rpc' = [rpc EXCEPT !["startup"] = "stopped"]
    /\ UNCHANGED <<disk, rvs, rinserted, reader, appFrame>>

\* initialize_rag_retriever lines 35-54 called in the serving application:
\* VectorRetrieverLoader is constructed (a new VectorStoreManager) and
\* load_retriever begins.
StartRefresh(p) ==
    /\ p # "startup"
    /\ rpc["startup"] = "done"
    /\ rpc[p] = "idle"
    /\ rpc' = [rpc EXCEPT ![p] = "clear1"]
    /\ rvs' = [rvs EXCEPT ![p] = "None"]
    /\ rinserted' = [rinserted EXCEPT ![p] = 0]
    /\ UNCHANGED <<disk, rag_retriever, STATE_keys, reader, appFrame>>

\* Lines 56-60: the call is over for its caller: the retriever was stored by
\* update_rag_retriever, or RuntimeError was raised.
RefreshEnds(p) ==
    /\ p # "startup"
    /\ rpc[p] \in {"done", "failed"}
    /\ rpc' = [rpc EXCEPT ![p] = "idle"]
    /\ UNCHANGED <<disk, rvs, rinserted, rag_retriever, STATE_keys, reader, appFrame>>

\* get_rag_retriever (lines 112-116).
GetRagRetriever ==
    /\ reader.pc = "idle"
    /\ reader' = IF "RAG_RETRIEVER" \notin STATE_keys
                 THEN [reader EXCEPT !.pc = "raised", !.result = "RuntimeError"]
                 ELSE [reader EXCEPT !.pc = "holding", !.retriever = rag_retriever,
                                     !.at_get = disk.coll]
    /\ UNCHANGED <<disk, rpc, rvs, rinserted, rag_retriever, STATE_keys, appFrame>>

\* The request queries its retriever: the store answers from the named
\* collection, or raises (always when the collection does not exist).
InvokeRetriever ==
    /\ reader.pc = "holding"
    /\ \E ok \in BOOLEAN :
         reader' = IF ok /\ disk.coll.exists
                   THEN [reader EXCEPT !.pc = "observed", !.result = "ok",
                                       !.observed = Visible(disk.coll, reader.at_get)]
                   ELSE [reader EXCEPT !.pc = "observed", !.result = "error"]
    /\ UNCHANGED <<disk, rpc, rvs, rinserted, rag_retriever, STATE_keys, appFrame>>

\* The request is answered.
ReaderEnds ==
    /\ reader.pc \in {"observed", "raised"}
    /\ reader' = IdleReader
    /\ UNCHANGED <<disk, rpc, rvs, rinserted, rag_retriever, STATE_keys, appFrame>>

InitApp ==
    /\ disk \in DiskStates
    /\ content_root \in ContentRoots
    /\ chunk_config = [size |-> MaxChunkSize, overlap |-> 0]
    /\ IndexIdle
    /\ LoaderIdle
    /\ RetrieverIdle
    /\ RefreshIdle
    /\ ServiceIdle

NextApp ==
    \/ LifespanStart
    \/ LifespanInstall
    \/ LifespanFails
    \/ LifespanShutdown
    \/ GetRagRetriever
    \/ InvokeRetriever
    \/ ReaderEnds
    \/ \E p \in AppProcs :
        \/ StartRefresh(p)
        \/ RebuildClear(p)
        \/ RebuildCreate(p)
        \/ RebuildLoad(p)
        \/ RebuildInsert(p)
        \/ (p # "startup" /\ InstallRetriever(p))
        \/ RefreshEnds(p)

SpecApp == InitApp /\ [][NextApp]_vars

----------------------------------------------------------------------------
(* POST /query: process_rag_query                                          *)

\* The answer of the except branch (rag_chain_service.py line 99).
Apology == "I am currently unable to process your request due to a system error."

\* Messages of the exceptions retriever.invoke can raise.
RetrievalErrors == {"Collection policy_docs does not exist", "disk I/O error"}

\* Messages of the exceptions requests.post can raise inside _send_request.
RequestErrors == {"Connection refused", "Read timed out"}

\* The answers the model can stream back; an empty stream reads "[No response]"
\* (llm.py line 78).
Answers == {"an answer", "[No response]"}

\* The metadata key 'filename' of a retrieved document, when it has none.
NoFilename == "absent"

\* The documents the retriever can return.
LcDocs == [page_content : Contents, filename : {"f1", NoFilename}]

\* _send_request line 67 wraps the failure; query line 88 returns str(e) of it
\* in the "error" entry of its dict.
OllamaError(detail) == "Ollama connectivity or request error: " \o detail

\* OllamaAIService.query (llm.py lines 70-91): it never raises; the dict
\* carries either the answer or the error text.
LlmResults ==
    { [answer |-> a, error |-> NoDetail] : a \in Answers }
        \cup { [answer |-> NoDetail, error |-> OllamaError(d)] : d \in RequestErrors }

\* Lines 74-81: one ContextDocument per retrieved document.
ContextDocument(doc) ==
    [page_content |-> doc.page_content,
     source |-> IF doc.filename = NoFilename THEN "Unknown" ELSE doc.filename,
     score |-> NoScore]

FormatContext(ds) == [i \in 1..Len(ds) |-> ContextDocument(ds[i])]

\* Lines 86-93: the response of a call that went through.
SuccessResponse(llm_result, ds) ==
    [answer |-> llm_result.answer, context |-> FormatContext(ds), error |-> NoDetail]

\* Lines 95-105: the response of the except branch, for the exception text e
\* (str(e) of an exception is its message).
FailureResponse(e) ==
    [answer |-> Apology, context |-> <<>>, error |-> e]

queryFrame == <<indexVars, loaderVars, retrievalVars, refreshVars, chatVars, dbVars, appVars>>

\* A POST /query request arrives with its k; line 54 logs it.
ReceiveQuery ==
    /\ qry.pc = "idle"
    /\ \E k \in 1..MaxK :
         qry' = [qry EXCEPT !.pc = "retrieve", !.k = k, !.logs = Append(@, "INFO Retrieving")]
    /\ UNCHANGED queryFrame

\* Lines 56-60: retriever.invoke returns documents or raises; the except
\* branch (lines 95-105) logs the exception and returns the error response.
RetrieveForQuery ==
    /\ qry.pc = "retrieve"
    /\ \/ \E ds \in SeqsUpTo(LcDocs, MaxK) :
            qry' = [qry EXCEPT !.pc = "generate", !.context_docs = ds,
                               !.logs = Append(@, "INFO Retrieved")]
       \/ \E e \in RetrievalErrors :
            qry' = [qry EXCEPT !.pc = "returned", !.caught = e,
                               !.response = FailureResponse(e),
                               !.logs = Append(@, "ERROR " \o e)]
    /\ UNCHANGED queryFrame

\* Lines 63-93: the prompt is built, the model is queried, an "error" entry
\* in its result raises RuntimeError (line 72), which the except branch turns
\* into the error response.
GenerateForQuery ==
    /\ qry.pc = "generate"
    /\ \E llm_result \in LlmResults :
         IF llm_result.error # NoDetail
         THEN LET e == "LLM generation failed: " \o llm_result.error
              IN qry' = [qry EXCEPT !.pc = "returned", !.caught = e,
                                    !.response = FailureResponse(e),
                                    !.logs = Append(@, "ERROR " \o e)]
         ELSE qry' = [qry EXCEPT !.pc = "returned",
                                 !.response = SuccessResponse(llm_result, qry.context_docs)]
    /\ UNCHANGED queryFrame

\* The endpoint sends the response; the next request can arrive.
NextQueryRequest ==
    /\ qry.pc = "returned"
    /\ qry' = IdleQuery
    /\ UNCHANGED queryFrame

InitQuery ==
    /\ disk = RemovedDir
    /\ content_root = [exists |-> FALSE, raw |-> 0, chunks |-> 0]
    /\ chunk_config = [size |-> 1, overlap |-> 0]
    /\ IndexIdle
    /\ LoaderIdle
    /\ RetrieverIdle
    /\ RefreshIdle
    /\ ServiceIdle

NextQuery ==
    \/ ReceiveQuery
    \/ RetrieveForQuery
    \/ GenerateForQuery
    \/ NextQueryRequest

SpecQuery == InitQuery /\ [][NextQuery]_vars

----------------------------------------------------------------------------
(* Properties                                                              *)

Rmtree == {"rmtree_ok", "rmtree_fail"}

\* C1: a call given force_rebuild = False that finds the path, and whose
\* load of a collection with at least one id does not raise, returns that
\* collection and performs no clear, delete-by-name, rmtree or create: the
\* persist directory is as it was at entry.
C1_LoadedReturnsUntouched ==
    (pc = "done" /\ ~forced_given /\ pre.path /\ Count(pre.coll) > 0
        /\ loadOutcome # "raised")
    => /\ result = "returned"
       /\ loadOutcome = "loaded"
       /\ vector_store = "Chroma"
       /\ ops = <<>>
       /\ disk = pre

C1_Witness ==
    /\ pc = "done" /\ op = "ensure" /\ ~forced_given
    /\ pre.path /\ Count(pre.coll) = MaxChunks /\ pre.other
    /\ loadOutcome = "loaded" /\ result = "returned"
    /\ documents_to_index > 0

\* C2: every path that reaches the create step has removed the previous
\* contents of the named collection first, so a call that returns through
\* the create step leaves exactly the chunks passed to it.
C2_RebuildClearsFirst ==
    /\ (Running /\ epc = "create") => Count(disk.coll) = 0
    /\ (pc = "done" /\ result = "returned" /\ Has(ops, "create"))
         => disk.coll = Exactly(documents_to_index)

\* C3: a call given force_rebuild = False whose load raises, or loads an
\* empty collection, does not fail (unless the create step itself raises)
\* and returns a collection built from documents_to_index.
C3_LoadFailureRebuilds ==
    (pc = "done" /\ ~forced_given /\ loadOutcome \in {"raised", "empty"}
        /\ ~createFailed)
    => /\ result = "returned"
       /\ disk.coll = Exactly(documents_to_index)

C5_RmtreeFailureIsFatal ==
    Has(ops, "rmtree_fail")
    => /\ pc = "done"
       /\ epc = "raised"
       /\ result = "VectorStoreError"
       /\ ops[Len(ops)] = "rmtree_fail"
       /\ Cardinality({i \in 1..Len(ops) : ops[i] \in Rmtree}) = 1
       /\ ~Has(ops, "create")
       /\ vector_store = "None"

C5_Witness ==
    /\ Has(ops, "rmtree_fail")
    /\ pc = "done"
    /\ result = "VectorStoreError"
    /\ op = "load_retriever"

\* C6: a failure in the clear or the create step raises and leaves the
\* manager without a collection reference, and a collection half-written
\* by a failed create is never loaded as a valid one by a later call given
\* force_rebuild = False.
C6_FailedRebuildNeverValid ==
    /\ (pc = "done" /\ (createFailed \/ Has(ops, "rmtree_fail")))
         => /\ result \in {"VectorStoreError", "ChromaError"}
            /\ vector_store = "None"
    /\ ~(loadOutcome = "loaded" /\ partialBy = "failure")

\* C7: load_retriever over a content root that yields zero chunks (no raw
\* document, or raw documents that split into no chunk) returns, with the
\* collection persisted and empty, when no library call raises.
C7_ZeroChunksSucceeds ==
    (pc = "done" /\ op = "load_retriever" /\ content_root.exists
        /\ content_root.chunks = 0 /\ ~envFailed)
    => /\ result = "returned"
       /\ disk.coll = EmptyColl

\* C8: two successful load_retriever runs in sequence over the unchanged
\* content root leave the same number of vectors in the collection.
C8_RebuildIdempotent ==
    Len(lrCounts) = 2 => lrCounts[1] = lrCounts[2]

C8_Witness ==
    /\ Len(lrCounts) = 2
    /\ lrCounts[2] = content_root.chunks
    /\ content_root.chunks > 1
    /\ pc = "done" /\ result = "returned"

\* C9: the clear of a forced call on a collection that did not exist raises
\* nothing and leaves the persist directory as it was (other collections
\* included), and clearing once more right after a clear changes nothing.
C9_ClearMissingIsNoOp ==
    /\ (forced_given /\ ~pre.coll.exists /\ epc \in {"create", "raised"}
           /\ ~Has(ops, "create"))
         => (epc = "create" /\ disk.coll = pre.coll /\ disk.other = pre.other)
    /\ (forced_given /\ epc = "create")
         => LET again == ClearExistingCollection(vector_store, disk, AllOk).disk
            IN  again.coll = disk.coll /\ again.other = disk.other

\* C10: a rebuild interrupted between the start of the clear and the end of
\* the bulk insert never leaves a half-written collection that a later call
\* given force_rebuild = False loads as valid.
C10_InterruptedRebuildDetectable ==
    ~(loadOutcome = "loaded" /\ partialBy = "interrupt")

\* The configurations with 0 <= chunk_overlap < chunk_size.
ValidChunkConfig(cfg) == 0 <= cfg.overlap /\ cfg.overlap < cfg.size

\* C20: a chunk configuration that violates 0 <= chunk_overlap < chunk_size
\* is rejected when the loader is constructed, so a load_retriever run with
\* such a configuration never deletes the collection or removes the persist
\* directory, and never holds loaded documents to chunk.
C20_InvalidConfigNeverRebuilds ==
    (op = "load_retriever" /\ ~ValidChunkConfig(chunk_config))
        => /\ ~Has(ops, "delete_ok") /\ ~Has(ops, "rmtree_ok")
           /\ pc # "lr_chunk"

\* The documents of the files that load, in traversal order.
RECURSIVE LoadableDocs(_, _)
LoadableDocs(fs, i) ==
    IF i > Len(fs) THEN <<>>
    ELSE (IF GetLoaderClass(fs[i].ext) # "None" /\ fs[i].kind = "regular"
          THEN DocsOf(i, fs[i]) ELSE <<>>) \o LoadableDocs(fs, i + 1)

\* C18: when the content root does not exist load_raw_documents fails with
\* the content-path-not-found error (FileNotFoundError); no document is
\* loaded and no list, partial or not, is returned.
C18_MissingRootFails ==
    (~content_path.exists /\ lpc = "done")
        => /\ load_result.kind = "FileNotFoundError"
           /\ load_result.docs = <<>>
           /\ all_docs = <<>>

C18_Witness == ~content_path.exists /\ lpc = "done"

\* C19: a file that fails to load, or has an unsupported extension, never
\* aborts the pass: over an existing root load_raw_documents raises nothing
\* and returns exactly the documents of the files that loaded, in traversal
\* order.
C19_FileFailureNeverAborts ==
    (content_path.exists /\ lpc = "done")
        => /\ load_result.kind = "returned"
           /\ load_result.docs = LoadableDocs(content_path.files, 1)

\* The retrieve_context calls whose union step has run.
Combined(f) == f.vector_docs \o f.keyword_docs
UnionDone(f) == Has(f.stages, "rerank")
Returned(f) == f.pc = "done" /\ f.result.kind = "returned"
ContentsOf(lst) == { lst[i].page_content : i \in 1..Len(lst) }

\* C13: after the union step no two candidates handed to the reranker have
\* the same content, and every distinct content of the vector and keyword
\* result lists appears among them (so exactly once).
C13_DedupUnique ==
    \A p \in Procs : UnionDone(call[p]) =>
        LET u == call[p].unique_docs IN
        /\ \A i, j \in 1..Len(u) : i # j => u[i].page_content # u[j].page_content
        /\ ContentsOf(u) = ContentsOf(Combined(call[p]))

C13_Witness ==
    \E p \in Procs :
        /\ UnionDone(call[p])
        /\ Len(call[p].unique_docs) = 2
        /\ Len(Combined(call[p])) > 2

\* C14: when several candidates of the union (vector results first, then
\* keyword results) have the same content, the surviving entry carries the
\* source name of the first of them in that order.
C14_FirstOccurrenceMetadata ==
    \A p \in Procs : UnionDone(call[p]) =>
        LET u == call[p].unique_docs
            all == Combined(call[p])
            first(c) == all[CHOOSE i \in 1..Len(all) :
                              /\ all[i].page_content = c
                              /\ \A j \in 1..(i - 1) : all[j].page_content # c]
        IN \A i \in 1..Len(u) :
             MetaOf(docs, u[i]).source_name
                = MetaOf(docs, first(u[i].page_content)).source_name

\* The score the call's own predict gave to the candidate with content c.
OwnScore(f, c) ==
    f.scores[CHOOSE i \in 1..Len(f.unique_docs) : f.unique_docs[i].page_content = c]

\* C15: the chunks returned are sorted by descending rerank score, number at
\* most final_k, and are the final_k highest-scored candidates of the
\* deduplicated union (all of them when there are fewer).
C15_RankedTopK ==
    \A p \in Procs : Returned(call[p]) =>
        LET f == call[p]
            ch == f.result.chunks
            got == { ch[i].text : i \in 1..Len(ch) }
        IN /\ \A i, j \in 1..Len(ch) :
                 i < j => OwnScore(f, ch[i].text) >= OwnScore(f, ch[j].text)
           /\ Len(ch) <= f.final_k
           /\ Len(ch) = Min(f.final_k, Len(f.unique_docs))
           /\ Cardinality(got) = Len(ch)
           /\ got \subseteq ContentsOf(f.unique_docs)
           /\ \A c \in got, d \in ContentsOf(f.unique_docs) \ got :
                 OwnScore(f, c) >= OwnScore(f, d)

C15_Witness ==
    \E p \in Procs :
        /\ Returned(call[p])
        /\ call[p].final_k = 1
        /\ Len(call[p].unique_docs) = 2
        /\ call[p].scores[1] < call[p].scores[2]

\* C16: a failure in one of the three stages ends the call with that stage's
\* own error (VectorSearchError, KeywordSearchError, RerankError); the failing
\* stage is the last one that ran, and neither a context nor chunks are
\* returned; a call that returns has run all three stages.
C16_StageFailureAborts ==
    \A p \in Procs : call[p].pc = "done" =>
        LET f == call[p] IN
        /\ f.result.kind \in {"returned", "VectorSearchError", "KeywordSearchError", "RerankError"}
        /\ (f.result.kind = "VectorSearchError" <=> f.stages = <<"vector">>)
        /\ (f.result.kind = "KeywordSearchError" <=> f.stages = <<"vector", "keyword">>)
        /\ (f.result.kind = "RerankError"
                => f.stages = <<"vector", "keyword", "rerank">> /\ f.scores = <<>>)
        /\ (f.result.kind # "returned"
                => f.result.context = <<>> /\ f.result.chunks = <<>>)
        /\ (f.result.kind = "returned" => f.stages = <<"vector", "keyword", "rerank">>)

C16_Witness ==
    \E p \in Procs :
        /\ call[p].pc = "done"
        /\ call[p].result.kind = "RerankError"
        /\ call[p].unique_docs # <<>>

\* C17: the context holds one Source/Content block per returned chunk, in
\* the chunks' order; block i carries the text and the source of chunks[i];
\* the blocks are as many as the chunks.
C17_ContextParallelsChunks ==
    \A p \in Procs : Returned(call[p]) =>
        LET ctx == call[p].result.context
            ch == call[p].result.chunks
            n == Len(ch)
        IN /\ Len(ctx) = IF n = 0 THEN 0 ELSE 5 * n - 1
           /\ \A i \in 1..n :
                 /\ ctx[5 * (i - 1) + 1] = "Source: "
                 /\ ctx[5 * (i - 1) + 2] = ch[i].source
                 /\ ctx[5 * (i - 1) + 3] = "\nContent: "
                 /\ ctx[5 * (i - 1) + 4] = ch[i].text
                 /\ (i < n => ctx[5 * i] = "\n\n")

C17_Witness ==
    \E p \in Procs :
        /\ Returned(call[p])
        /\ Len(call[p].result.chunks) = 2
        /\ call[p].result.chunks[1].source = "N/A"
        /\ call[p].result.chunks[2].source = "s1"

\* What the call of frame f returns when it runs alone: its candidates
\* ranked by the scores its own predict gave them, over the documents as
\* they were loaded.
AloneRanked(f) ==
    LET order == RankOrder(f.scores) IN
    TopN([k \in 1..Len(order) |-> f.unique_docs[order[k]]], f.final_k)

AloneChunks(f) ==
    LET ranked == AloneRanked(f) IN
    [i \in 1..Len(ranked) |->
        [text |-> ranked[i].page_content,
         source |-> SourceName(MetaOf(docs0, ranked[i]))]]

\* C12: concurrent retrieve_context calls over the same documents share no
\* mutable state: under every interleaving a call that returns gives the
\* chunks it would give alone (ranked by its own query's scores), and once
\* every call is completed or abandoned the document objects are as they
\* were loaded.
C12_ConcurrentCallsIndependent ==
    /\ \A p \in Procs :
          Returned(call[p]) => call[p].result.chunks = AloneChunks(call[p])
    /\ (\A p \in Procs : call[p].pc \in {"idle", "done", "abandoned"}) => docs = docs0

----------------------------------------------------------------------------
(* The chat path                                                           *)

\* The process runs with neither TOP_K_* variable set.
DefaultConfiguration ==
    /\ env.TOP_K_CHUNKS_ON_RETRIEVER = Unset
    /\ env.TOP_K_CHUNKS_ON_RERANKER = Unset

\* C21: under the default configuration the chat path calls retrieve_context
\* with initial_k in 5..10 and final_k = 3, hence final_k <= initial_k.
C21_DefaultKs ==
    (DefaultConfiguration /\ chat.pc = "retrieve") =>
        /\ call[1].initial_k \in 5..10
        /\ call[1].final_k = 3
        /\ call[1].final_k <= call[1].initial_k

----------------------------------------------------------------------------
(* The metadata store                                                      *)

\* C22: save_db is an atomic swap. After every step the DB file holds a
\* complete content, so a load_db at any point reads the whole old or the
\* whole new content; and the DB file changes only in the move that ends a
\* successful save_db, to exactly the content being saved, so a save_db that
\* fails before it leaves the file as it was.
C22_AtomicSwap ==
    [][ /\ db_file'.written = "complete"
        /\ (db_file' # db_file =>
              \E p \in DbProcs : /\ req[p].pc = "move"
                                 /\ req'[p].result = "ok"
                                 /\ db_file' = Complete(req[p].db)) ]_vars

\* No two items of the collection have the same id.
UniqueIds(coll) == \A i, j \in 1..Len(coll) : i # j => coll[i].id # coll[j].id

C26_WritesAreDurable ==
    \A id \in alive : id \in IdsOf(ParseDb(db_file))

----------------------------------------------------------------------------
(* The resource endpoints                                                  *)

\* The ids of the records find_by_id can find.
Records == IdsOf(ParseDb(db_file))

Quiescent == \A p \in DbProcs : req[p].pc \in {"idle", "hdone"}

\* C30: files and records stay consistent. After any sequence of uploads
\* and deletes, failed ones included, every record refers to a file that
\* exists; and a delete answered 204 leaves neither the record nor the file.
C30_RecordsHaveFiles ==
    /\ Quiescent => Records \subseteq stored
    /\ \A p \in DbProcs :
         ( /\ req[p].handler = "delete_resource"
           /\ req[p].pc = "hdone"
           /\ req[p].status = 204 )
         => /\ req[p].id \notin stored
            /\ req[p].id \notin Records

----------------------------------------------------------------------------
(* A rebuild that fails after its clear                                    *)

\* The exceptions of load_raw_documents and chunk_documents (and of the log
\* line between them and the indexing call).
LoadStageErrors == {"FileNotFoundError", "ValueError", "IndexError"}

\* C27: load_retriever clears before it looks at the content root. Whenever
\* load_raw_documents or chunk_documents raises, the call fails with the
\* collection indexed before the call already removed: the named collection
\* holds no vector.
C27_FailedRebuildLosesIndex ==
    (op = "load_retriever" /\ pc = "done" /\ result \in LoadStageErrors)
        => Count(disk.coll) = 0

\* load_retriever found two vectors indexed, its content path missing, and
\* failed with the collection emptied.
C27_Witness ==
    /\ op = "load_retriever"
    /\ pc = "done"
    /\ result = "FileNotFoundError"
    /\ Count(pre.coll) = MaxChunks
    /\ disk.coll = EmptyColl

----------------------------------------------------------------------------
(* The /query pipeline                                                     *)

\* C25: process_rag_query never raises: when retrieval or generation fails
\* it returns a response with the fixed apology answer and an empty context
\* list, and that response exposes no detail of the error (its error field
\* is empty; the detail is in the logs only).
C25_FailureExposesNoDetail ==
    (qry.pc = "returned" /\ qry.caught # NoDetail)
        => /\ qry.response.answer = Apology
           /\ qry.response.context = <<>>
           /\ qry.response.error = NoDetail
           /\ \E i \in 1..Len(qry.logs) : qry.logs[i] = "ERROR " \o qry.caught

----------------------------------------------------------------------------
(* The published retriever                                                 *)

\* C28: STATE['RAG_RETRIEVER'] is only ever set to a retriever whose build
\* completed: a request's retriever is stored only in a step that follows
\* the return of its initialize_rag_retriever; a call that fails leaves
\* STATE as it was; after a failed startup (and after shutdown) STATE is
\* empty; and get_rag_retriever hands out the stored retriever or raises
\* RuntimeError when the key is absent.
C28_StateHoldsOnlyBuiltRetrievers ==
    [][ /\ \A p \in AppProcs :
             /\ (rpc[p] # "done" /\ rpc'[p] = "done") => (rpc[p] = "swap" /\ rag_retriever' = p)
             /\ (rpc[p] # "failed" /\ rpc'[p] = "failed")
                    => (rag_retriever' = rag_retriever /\ STATE_keys' = STATE_keys)
             /\ (p # "startup" /\ rpc[p] = "failed" /\ rpc'[p] # "failed")
                    => (rag_retriever' = rag_retriever /\ STATE_keys' = STATE_keys)
        /\ rag_retriever' \notin {rag_retriever, "none"} => rpc[rag_retriever'] = "swap"
        /\ rpc'["startup"] \in {"failed", "stopped"} => (STATE_keys' = {} /\ rag_retriever' = "none")
        /\ ("RAG_RETRIEVER" \in STATE_keys') = (rag_retriever' # "none")
        /\ (reader.pc = "idle" /\ reader'.pc # "idle")
               => IF rag_retriever = "none"
                  THEN reader'.pc = "raised" /\ reader'.result = "RuntimeError"
                  ELSE reader'.pc = "holding" /\ reader'.retriever = rag_retriever
      ]_vars

\* A refresh failed after the startup installed its retriever, and a request
\* got the startup's retriever from get_rag_retriever.
C28_Witness ==
    /\ rpc["refresh1"] = "failed"
    /\ rag_retriever = "startup"
    /\ reader.pc = "holding"
    /\ reader.retriever = "startup"

====
